---------------------------- MODULE Spec2Model ----------------------------
(***************************************************************************)
(* Model of the web client server of dspcoder-vs-server (code-server's     *)
(* WebClientServer, its URL helpers and the login rate limiter).           *)
(*                                                                         *)
(* Strings are sequences of one-character strings, so that every string    *)
(* operation of the source (split, replace, substring, indexOf, join,      *)
(* normalize) is computed the way the source computes it.                  *)
(***************************************************************************)
EXTENDS Integers, Sequences, FiniteSets, TLC

VARIABLES
    \* ---- relativeRoot / relativePath (URL helpers) ----
    originalUrl,    \* the request's original URL, a string
    base,           \* relativeRoot(originalUrl) once computed, else Undefined
    vscodeBase,     \* relativePath(originalUrl) once computed, else Undefined
    \* ---- _handleStatic / serveFile ----
    sPathname,      \* parsedUrl.pathname of the request (percent-encoded)
    sPc,            \* where the handler is: start, stat, streaming, done, failed, rejected
    sFilePath,      \* the filePath handed to serveFile, else Undefined
    sCacheControl,  \* the CacheControl handed to serveFile, else "none"
    sRes,           \* the response: [status, headers, ended]
    sFsOps,         \* the filesystem calls made for the request, in order
    sIsBuilt,       \* this._environmentService.isBuilt
    sIfNoneMatch,   \* req.headers['if-none-match'], known once serveFile reads it
    sStat,          \* what promises.stat(filePath) gave: [outcome, ino, size, mtime]
    \* ---- _handleWebExtensionResource ----
    eTemplate,      \* this._webExtensionResourceUrlTemplate: a URI or NoUri
    ePathname,      \* parsedUrl.pathname of the request (percent-encoded)
    ePc,            \* where the handler is: start, request, body, done, rejected
    eUri,           \* the upstream URI built from the path, else NoUri
    eRes,           \* the response: [status, headers, ended]
    eOutbound,      \* the requests issued through the request service, in order
    eReqHeaders,    \* req.headers: header name -> value
    eHost,          \* the answers the resource host may give to the request
    eContext,       \* the request service's answer: [statusCode, headers, text, body, readable]
    eUpBody,        \* the chunks of context.stream that have not arrived yet
    eBuffer,        \* the chunks streamToBuffer has collected
    eSent,          \* what has been written to the client as the response body
    \* ---- _handleRoot ----
    rTokenType,     \* this._connectionToken.type: "None" or "Mandatory"
    rTemplate,      \* the workbench template file, a string of HTML tokens
    rUrl,           \* the URL of the request in hand: [pathname, pairs]
    rCookie,        \* the connection-token cookie the request presents ("" if none)
    rPc,            \* where the handler is: start, render, done
    rValue,         \* the JSON value this render injects
    rRes,           \* the response of the request in hand
    rLog,           \* the exchanges completed so far: [url, cookie, value, res]
    \* ---- the login rate limiter (Session/Auth Manager) ----
    ledger,         \* LoginAttemptLedger: client -> [short, long], entries made lazily
    issued,         \* per client, the attempts issued in its current windows
                    \* (rejected ones included), counted up to one past the cap
    lastOp,         \* the last operation and what it returned
    \* ---- handle(): the dispatch to the route handlers ----
    hPathname,      \* parsedUrl.pathname of the request; Undefined if it has none
    hPc,            \* where handle() is: start, handler, readFile, settled
    hHandlers,      \* the handlers (and the 404 answer) the request was given to, in order
    hError,         \* the error raised in handle() or _handleCallback, else "none"
    hRes,           \* what handle() and _handleCallback wrote to the response
    hPromise,       \* the promise handle() returned: pending, resolved, rejected
    \* ---- asJSON ----
    jsonValue,      \* the value handed to asJSON
    jsonEmbedded,   \* the string asJSON returned, else Undefined
    \* ---- gateway: WebSocket upgrade (routes/vscode.ts) ----
    wPc,            \* where the upgrade request is: idle, accepted, connecting, spliced, done
    wReachable,     \* whether the backend listener accepts the second connection
    wClient,        \* the client socket: none, open, closed
    wBackend,       \* the backend socket: none, connecting, open, closed
    wAnswer,        \* what was answered on the client socket: none, 502, 101
    wHangup,        \* TRUE when the client closed the connection itself
    wCycles,        \* upgrade requests finished so far
    wHandles,       \* sockets the process holds open
    \* ---- TLS socket proxy (socket.ts) ----
    tConns,         \* the TLS-proxied connections: state, public and internal socket, age in Accepted, cause of closing
    \* ---- LocalStorageURLCallbackProvider ----
    cbNow,          \* Date.now(), in ms since the provider was constructed
    REQUEST_ID,     \* LocalStorageURLCallbackProvider.REQUEST_ID
    pendingCallbacks, \* this.pendingCallbacks, in insertion order
    lastTimeChecked, \* this.lastTimeChecked
    checkCallbacksTimeout, \* this.checkCallbacksTimeout: the time the timer is due, else NoTimeout
    cbListening,    \* TRUE when onDidChangeLocalStorageDisposable is set
    cbStorage,      \* ids whose vscode-web.url-callbacks[id] item is in localStorage
    cbRegistered,   \* ids that create() added to pendingCallbacks
    cbFired,        \* ids whose callback was fired, in order
    cbChecks,       \* the times at which checkCallbacks ran
    \* ---- ServerKeyedAESCrypto.getServerKeyPart ----
    serverKey,      \* ServerKeyedAESCrypto._serverKey: the cached key, else NoKey
    kCalls,         \* the getServerKeyPart calls: position, attempt, lastError, fetches made, waits, result
    kStarted,       \* getServerKeyPart calls started so far
    \* ---- LocalStorageSecretStorageProvider ----
    secrets,        \* the record _secretsPromise resolves to: key -> value, "undefined" when absent
    secretItem,     \* the localStorage item secrets.provider: sealed text, else NoItem
    secretSaves,    \* the save() calls started, in order: position and the text being sealed
    secretWrites,   \* for each key, the value of the last set, "undefined" after delete
    secretGot,      \* what the last get returned
    \* ---- XtermTerminal: WebGL renderer ----
    gpuAcceleration, \* config.gpuAcceleration: auto, on, off
    wgRenderer,     \* the GPU the probe would see: SwiftShader, other, noDebugInfo
    wgProcess,      \* XtermTerminal statics and counters: _suggestedRendererType, _checkedWebglCompatible, probes run, addons created
    wgTerms,        \* per terminal: raw.element, enableGpu, _webglAddon, invocations awaiting the constructor, addons loaded
    \* ---- webWorkerExtensionHostIframe.html ----
    iHostname,      \* location.hostname of the iframe
    iParentOrigin,  \* parentOrigin: the search parameter, else window.origin
    iSalt,          \* the salt search parameter
    iSecure,        \* TRUE when crypto.subtle is available
    iPc,            \* where the page script is: validating, hashing, started, error, threw
    iPosted,        \* what was posted to the parent window, in order
    iOnmessage,     \* the installed self.onmessage: none, bootstrap, forward
    iWorkers,       \* origins of the messages that created a worker
    iForwarded      \* origins of the messages forwarded to the worker

pathVars == <<originalUrl, base, vscodeBase>>
staticVars == <<sPathname, sPc, sFilePath, sCacheControl, sRes, sFsOps, sIsBuilt, sIfNoneMatch, sStat>>

extVars == <<eTemplate, ePathname, ePc, eUri, eRes, eOutbound,
             eReqHeaders, eHost, eContext, eUpBody, eBuffer, eSent>>

rootVars == <<rTokenType, rTemplate, rUrl, rCookie, rPc, rValue, rRes, rLog>>

loginVars == <<ledger, issued, lastOp>>

handleVars == <<hPathname, hPc, hHandlers, hError, hRes, hPromise>>

jsonVars == <<jsonValue, jsonEmbedded>>

upgradeVars == <<wPc, wReachable, wClient, wBackend, wAnswer, wHangup, wCycles, wHandles>>

tlsVars == <<tConns>>

callbackVars == <<cbNow, REQUEST_ID, pendingCallbacks, lastTimeChecked, checkCallbacksTimeout, cbListening, cbStorage, cbRegistered, cbFired, cbChecks>>

keyVars == <<serverKey, kCalls, kStarted>>

secretVars == <<secrets, secretItem, secretSaves, secretWrites, secretGot>>

webglVars == <<gpuAcceleration, wgRenderer, wgProcess, wgTerms>>

iframeVars == <<iHostname, iParentOrigin, iSalt, iSecure, iPc, iPosted, iOnmessage, iWorkers, iForwarded>>

vars == <<pathVars, staticVars, extVars, rootVars, loginVars, handleVars, jsonVars, upgradeVars, tlsVars, callbackVars, keyVars, secretVars, webglVars, iframeVars>>

\* What the actions of one component leave alone.
notPath == <<staticVars, extVars, rootVars, loginVars, handleVars, jsonVars, upgradeVars, tlsVars, callbackVars, keyVars, secretVars, webglVars, iframeVars>>
notStatic == <<pathVars, extVars, rootVars, loginVars, handleVars, jsonVars, upgradeVars, tlsVars, callbackVars, keyVars, secretVars, webglVars, iframeVars>>
notExt == <<pathVars, staticVars, rootVars, loginVars, handleVars, jsonVars, upgradeVars, tlsVars, callbackVars, keyVars, secretVars, webglVars, iframeVars>>
notRoot == <<pathVars, staticVars, extVars, loginVars, handleVars, jsonVars, upgradeVars, tlsVars, callbackVars, keyVars, secretVars, webglVars, iframeVars>>
notLogin == <<pathVars, staticVars, extVars, rootVars, handleVars, jsonVars, upgradeVars, tlsVars, callbackVars, keyVars, secretVars, webglVars, iframeVars>>
notHandle == <<pathVars, loginVars, jsonVars, upgradeVars, tlsVars, callbackVars, keyVars, secretVars, webglVars, iframeVars>>
notJson == <<pathVars, staticVars, extVars, rootVars, loginVars, handleVars, upgradeVars, tlsVars, callbackVars, keyVars, secretVars, webglVars, iframeVars>>
notUpgrade == <<pathVars, staticVars, extVars, rootVars, loginVars, handleVars, jsonVars, tlsVars, callbackVars, keyVars, secretVars, webglVars, iframeVars>>
notTls == <<pathVars, staticVars, extVars, rootVars, loginVars, handleVars, jsonVars, upgradeVars, callbackVars, keyVars, secretVars, webglVars, iframeVars>>
notCallback == <<pathVars, staticVars, extVars, rootVars, loginVars, handleVars, jsonVars, upgradeVars, tlsVars, keyVars, secretVars, webglVars, iframeVars>>
notKey == <<pathVars, staticVars, extVars, rootVars, loginVars, handleVars, jsonVars, upgradeVars, tlsVars, callbackVars, secretVars, webglVars, iframeVars>>
notSecret == <<pathVars, staticVars, extVars, rootVars, loginVars, handleVars, jsonVars, upgradeVars, tlsVars, callbackVars, keyVars, webglVars, iframeVars>>
notWebgl == <<pathVars, staticVars, extVars, rootVars, loginVars, handleVars, jsonVars, upgradeVars, tlsVars, callbackVars, keyVars, secretVars, iframeVars>>
notIframe == <<pathVars, staticVars, extVars, rootVars, loginVars, handleVars, jsonVars, upgradeVars, tlsVars, callbackVars, keyVars, secretVars, webglVars>>

\* JavaScript's undefined, as a value comparable with every string of the model
\* (no string holds the element "undefined").
Undefined == <<"undefined">>

\* The response before anything is written to it.
NoResponse == [status |-> 0, headers |-> {}, ended |-> FALSE]

\* The state of a component that takes no part in a specification.
PathIdle ==
    /\ originalUrl = <<"/">>
    /\ base = Undefined
    /\ vscodeBase = Undefined

\* The result of promises.stat before the call has settled.
NoStat == [outcome |-> "none", ino |-> "", size |-> "", mtime |-> ""]

StaticIdle ==
    /\ sPathname = <<>>
    /\ sPc = "idle"
    /\ sFilePath = Undefined
    /\ sCacheControl = "none"
    /\ sRes = NoResponse
    /\ sFsOps = <<>>
    /\ sIsBuilt = FALSE
    /\ sIfNoneMatch = Undefined
    /\ sStat = NoStat

\* A URI: scheme, authority, path; and the value of a URI-typed variable
\* that holds undefined.
Uri(scheme, authority, path) == [scheme |-> scheme, authority |-> authority, path |-> path]
NoUri == Uri("", Undefined, Undefined)

\* A header value: a string, an array of strings, or undefined.
Str(s) == [kind |-> "string", items |-> <<s>>]
Arr(items) == [kind |-> "array", items |-> items]
NoValue == [kind |-> "undefined", items |-> <<>>]

\* The outcome of asTextOrError(context): it throws, or gives null or a text.
Throws == [outcome |-> "throws", text |-> ""]
Null == [outcome |-> "null", text |-> ""]
Text(t) == [outcome |-> "text", text |-> t]

\* An answer of the request service: context.res.statusCode (0: none),
\* context.res.headers, what asTextOrError(context) gives, the chunks of
\* context.stream and whether the stream can be read to its end.
Context(statusCode, headers, text, body, readable) ==
    [statusCode |-> statusCode, headers |-> headers, text |-> text,
     body |-> body, readable |-> readable]
NoContext == Context(0, <<>>, Null, <<>>, TRUE)

\* The resource host of the specifications that do not look at headers and
\* bodies: no status, 200 with a one-chunk body, 404.
PlainHost == {Context(statusCode, <<>>, Throws, <<"c1">>, TRUE) : statusCode \in {0, 200, 404}}

ExtIdle ==
    /\ eTemplate = NoUri
    /\ ePathname = <<>>
    /\ ePc = "idle"
    /\ eUri = NoUri
    /\ eRes = NoResponse
    /\ eOutbound = <<>>
    /\ eReqHeaders = <<>>
    /\ eHost = PlainHost
    /\ eContext = NoContext
    /\ eUpBody = <<>>
    /\ eBuffer = <<>>
    /\ eSent = <<>>

\* A URL as url.parse and url.format see it: the pathname and the query
\* string as its sequence of <<key, value>> parameters.
Url(pathname, pairs) == [pathname |-> pathname, pairs |-> pairs]
NoUrl == Url(Undefined, <<>>)

\* A cookie as cookie.serialize writes it, and the absence of one.
Cookie(name, value, sameSite, maxAge) ==
    [name |-> name, value |-> value, sameSite |-> sameSite, maxAge |-> maxAge]
NoCookie == Cookie("", "", "", 0)

\* The root handler's response before anything is written to it.
NoRootResponse ==
    [status |-> 0, location |-> NoUrl, setCookie |-> NoCookie,
     hasCsp |-> FALSE, scriptHashes |-> <<>>, contentType |-> "", body |-> <<>>,
     templateRead |-> "none", ended |-> FALSE]

RootIdle ==
    /\ rTokenType = "None"
    /\ rTemplate = <<>>
    /\ rUrl = NoUrl
    /\ rCookie = ""
    /\ rPc = "idle"
    /\ rValue = <<>>
    /\ rRes = NoRootResponse
    /\ rLog = <<>>

\* The clients (remote addresses) that may log in.
Clients == {"c1", "c2"}

\* What attemptLogin returns.
Response(result, message, sessionMaxAge) ==
    [result |-> result, message |-> message, sessionMaxAge |-> sessionMaxAge]
NoOp ==
    [op |-> "none", client |-> "", credential |-> "", steps |-> <<>>,
     before |-> [short |-> 0, long |-> 0],
     exceeded |-> [short |-> FALSE, long |-> FALSE],
     response |-> Response("", "", 0)]

LoginIdle ==
    /\ ledger = <<>>
    /\ issued = [c \in Clients |-> [short |-> 0, long |-> 0]]
    /\ lastOp = NoOp

\* A value handed to JSON.stringify: a string, or an object with one
\* property whose value is a string.
JsonString(str) == [kind |-> "string", key |-> <<>>, str |-> str]
JsonObject(key, str) == [kind |-> "object", key |-> key, str |-> str]

JsonIdle ==
    /\ jsonValue = JsonString(<<>>)
    /\ jsonEmbedded = Undefined

UpgradeIdle ==
    /\ wPc = "idle"
    /\ wReachable = TRUE
    /\ wClient = "none"
    /\ wBackend = "none"
    /\ wAnswer = "none"
    /\ wHangup = FALSE
    /\ wCycles = 0
    /\ wHandles = 0

TlsIdle ==
    /\ tConns = <<>>

CallbackIdle ==
    /\ cbNow = 0
    /\ REQUEST_ID = 0
    /\ pendingCallbacks = <<>>
    /\ lastTimeChecked = 0
    /\ checkCallbacksTimeout = <<>>
    /\ cbListening = FALSE
    /\ cbStorage = {}
    /\ cbRegistered = {}
    /\ cbFired = <<>>
    /\ cbChecks = <<>>

KeyIdle ==
    /\ serverKey = [cached |-> FALSE, byteLength |-> 0]
    /\ kCalls = <<>>
    /\ kStarted = 0

SecretIdle ==
    /\ secrets = <<>>
    /\ secretItem = [sealed |-> FALSE, text |-> {}]
    /\ secretSaves = <<>>
    /\ secretWrites = <<>>
    /\ secretGot = [key |-> "", value |-> "undefined"]

WebglIdle ==
    /\ gpuAcceleration = "auto"
    /\ wgRenderer = "other"
    /\ wgProcess = [suggested |-> "undefined", checked |-> FALSE, probes |-> 0, created |-> 0]
    /\ wgTerms = <<>>

IframeIdle ==
    /\ iHostname = <<>>
    /\ iParentOrigin = [id |-> "", valid |-> FALSE, hostname |-> <<>>]
    /\ iSalt = ""
    /\ iSecure = FALSE
    /\ iPc = "idle"
    /\ iPosted = <<>>
    /\ iOnmessage = "none"
    /\ iWorkers = {}
    /\ iForwarded = {}

HandleIdle ==
    /\ hPathname = <<>>
    /\ hPc = "idle"
    /\ hHandlers = <<>>
    /\ hError = "none"
    /\ hRes = NoResponse
    /\ hPromise = "pending"

(***************************************************************************)
(* Generic string helpers.                                                 *)
(***************************************************************************)

\* All strings over alphabet A of length at most n.
Strs(A, n) == UNION {[1..k -> A] : k \in 0..n}

\* String.prototype.indexOf(c) for a one-character c, 0-based, -1 if absent.
IndexOf(s, c) ==
    IF \E i \in 1..Len(s) : s[i] = c
    THEN (CHOOSE i \in 1..Len(s) : s[i] = c /\ \A j \in 1..(i-1) : s[j] # c) - 1
    ELSE -1

\* String.prototype.lastIndexOf(c), 0-based, -1 if absent.
LastIndexOf(s, c) ==
    IF \E i \in 1..Len(s) : s[i] = c
    THEN (CHOOSE i \in 1..Len(s) : s[i] = c /\ \A j \in (i+1)..Len(s) : s[j] # c) - 1
    ELSE -1

\* String.prototype.substring(from) / substring(from, to), 0-based, clamped.
Clamp(i, n) == IF i < 0 THEN 0 ELSE IF i > n THEN n ELSE i
Substring(s, from, to) ==
    LET a == Clamp(from, Len(s))
        b == Clamp(to, Len(s))
        lo == IF a <= b THEN a ELSE b
        hi == IF a <= b THEN b ELSE a
    IN  SubSeq(s, lo + 1, hi)
SubstringFrom(s, from) == Substring(s, from, Len(s))

\* s.startsWith(p)
StartsWith(s, p) == Len(p) <= Len(s) /\ SubSeq(s, 1, Len(p)) = p

\* String.prototype.repeat
RECURSIVE Repeat(_, _)
Repeat(s, n) == IF n <= 0 THEN <<>> ELSE s \o Repeat(s, n - 1)

(***************************************************************************)
(* normalizeUrlPath, relativeRoot, relativePath.                           *)
(***************************************************************************)

\* url.replace(/\/\/+/g, "/")
RECURSIVE CollapseSlashes(_)
CollapseSlashes(s) ==
    IF Len(s) < 2 THEN s
    ELSE IF s[1] = "/" /\ s[2] = "/" THEN CollapseSlashes(Tail(s))
    ELSE <<s[1]>> \o CollapseSlashes(Tail(s))

\* the part of s left of its trailing run of slashes
RECURSIVE StripTrailingSlashes(_)
StripTrailingSlashes(s) ==
    IF s # <<>> /\ s[Len(s)] = "/"
    THEN StripTrailingSlashes(SubSeq(s, 1, Len(s) - 1))
    ELSE s

\* url.replace(/\/\/+/g, "/").replace(/\/+$/, keepTrailing ? "/" : "")
normalizeUrlPath(url, keepTrailing) ==
    LET c == CollapseSlashes(url)
        t == StripTrailingSlashes(c)
    IN  IF keepTrailing /\ t # c THEN t \o <<"/">> ELSE t

\* originalUrl.split("?", 1)[0]
BeforeQuery(url) ==
    IF IndexOf(url, "?") = -1 THEN url ELSE Substring(url, 0, IndexOf(url, "?"))

\* (s.match(/\//g) || []).length
RECURSIVE CountSlashes(_)
CountSlashes(s) ==
    IF s = <<>> THEN 0
    ELSE (IF s[1] = "/" THEN 1 ELSE 0) + CountSlashes(Tail(s))

\* A mutant of relativeRoot: the slashes of the query string are counted too.
relativeRootWholeUrl(url) ==
    LET depth == CountSlashes(url)
    IN  normalizeUrlPath(<<".", "/">> \o (IF depth > 1 THEN Repeat(<<".", ".", "/">>, depth - 1) ELSE <<>>), FALSE)

relativeRoot(url) ==
    LET depth == CountSlashes(BeforeQuery(url))
    IN  normalizeUrlPath(<<".", "/">> \o (IF depth > 1 THEN Repeat(<<".", ".", "/">>, depth - 1) ELSE <<>>), FALSE)

\* A mutant of relativePath: the last segment is taken from the whole URL.
relativePathWholeUrl(url) ==
    normalizeUrlPath(<<".", "/">> \o SubstringFrom(url, LastIndexOf(url, "/") + 1), FALSE)

\* parts = originalUrl.split("?", 1)[0].split("/"); "./" + parts[parts.length - 1]
relativePath(url) ==
    LET p == BeforeQuery(url)
    IN  normalizeUrlPath(<<".", "/">> \o SubstringFrom(p, LastIndexOf(p, "/") + 1), FALSE)

(***************************************************************************)
(* Specification of the URL helpers: a request URL is drawn, and the root  *)
(* handler's two calls (base, vscodeBase) are applied to it.               *)
(***************************************************************************)
MaxUrlLen == 5
UrlChars == {"/", "?", "f", "b"}

\* req.url of an HTTP request in origin form starts with "/".
RequestUrls == {u \in Strs(UrlChars, MaxUrlLen) : u # <<>> /\ u[1] = "/"}

PathInit ==
    /\ originalUrl \in RequestUrls
    /\ base = Undefined
    /\ vscodeBase = Undefined
    /\ StaticIdle
    /\ ExtIdle
    /\ RootIdle
    /\ LoginIdle
    /\ HandleIdle
    /\ JsonIdle
    /\ UpgradeIdle
    /\ TlsIdle
    /\ CallbackIdle
    /\ KeyIdle
    /\ SecretIdle
    /\ WebglIdle
    /\ IframeIdle

\* const base = relativeRoot(getOriginalUrl(req))
CallRelativeRoot ==
    /\ base = Undefined
    /\ base' = relativeRoot(originalUrl)
    /\ UNCHANGED <<originalUrl, vscodeBase, notPath>>

\* const vscodeBase = relativePath(getOriginalUrl(req))
CallRelativePath ==
    /\ base # Undefined
    /\ vscodeBase = Undefined
    /\ vscodeBase' = relativePath(originalUrl)
    /\ UNCHANGED <<originalUrl, base, notPath>>

PathNext == CallRelativeRoot \/ CallRelativePath

SpecPath == PathInit /\ [][PathNext]_vars

\* The path portion of a URL: its longest prefix that holds no "?".
PathPortion(u) ==
    LET n == CHOOSE k \in 0..Len(u) :
                 /\ \A i \in 1..k : u[i] # "?"
                 /\ (k < Len(u) => u[k + 1] = "?")
    IN  SubSeq(u, 1, n)

\* The number of path separators of the path portion.
Depth(u) == Cardinality({i \in 1..Len(PathPortion(u)) : u[i] = "/"})

HasDoubleSlash(s) == \E i \in 1..(Len(s) - 1) : s[i] = "/" /\ s[i + 1] = "/"

\* C9: relativeRoot ignores the query string; with depth the number of "/"
\* of the path portion it returns "." when depth <= 1 and otherwise "."
\* followed by depth-1 "/.." segments; the result never ends in a slash and
\* never holds two consecutive slashes; "/" -> ".", "/foo" -> ".",
\* "/foo/" -> "./..", "/foo/bar" -> "./..", "/foo/bar/" -> "./../..".
\* (foo and bar are the one-letter segments f and b.)
C9_RelativeRoot ==
    base # Undefined =>
        /\ base = (IF Depth(originalUrl) <= 1 THEN <<".">>
                   ELSE <<".">> \o Repeat(<<"/", ".", ".">>, Depth(originalUrl) - 1))
        /\ base # <<>> /\ base[Len(base)] # "/"
        /\ ~HasDoubleSlash(base)
        /\ (originalUrl = <<"/">> => base = <<".">>)
        /\ (originalUrl = <<"/", "f">> => base = <<".">>)
        /\ (originalUrl = <<"/", "f", "/">> => base = <<".", "/", ".", ".">>)
        /\ (originalUrl = <<"/", "f", "/", "b">> => base = <<".", "/", ".", ".">>)
        /\ (originalUrl = <<"/", "f", "/", "b", "/">>
                => base = <<".", "/", ".", ".", "/", ".", ".">>)

\* A URL of depth 2 whose query string holds a slash of its own.
C9_Witness ==
    /\ originalUrl = <<"/", "f", "/", "?", "/">>
    /\ base = <<".", "/", ".", ".">>

\* C10: relativePath ignores the query string and returns "." followed by
\* "/" and the final path segment, or "." alone when the path ends in "/":
\* "/" -> ".", "/foo" -> "./foo", "/foo/" -> ".", "/foo/bar" -> "./bar",
\* "/foo/bar/" -> ".".
C10_RelativePath ==
    vscodeBase # Undefined =>
        LET p == PathPortion(originalUrl) IN
        /\ IF p[Len(p)] = "/"
           THEN vscodeBase = <<".">>
           ELSE \E i \in 1..Len(p) :
                    /\ p[i] = "/"
                    /\ \A j \in (i + 1)..Len(p) : p[j] # "/"
                    /\ vscodeBase = <<".", "/">> \o SubSeq(p, i + 1, Len(p))
        /\ (originalUrl = <<"/">> => vscodeBase = <<".">>)
        /\ (originalUrl = <<"/", "f">> => vscodeBase = <<".", "/", "f">>)
        /\ (originalUrl = <<"/", "f", "/">> => vscodeBase = <<".">>)
        /\ (originalUrl = <<"/", "f", "/", "b">> => vscodeBase = <<".", "/", "b">>)
        /\ (originalUrl = <<"/", "f", "/", "b", "/">> => vscodeBase = <<".">>)

\* A URL whose final path segment is followed by a query string with a slash.
C10_Witness ==
    /\ originalUrl = <<"/", "b", "?", "/">>
    /\ vscodeBase = <<".", "/", "b">>

(***************************************************************************)
(* POSIX path helpers (vs/base/common/path, imported; the deployment is    *)
(* Linux) and the containment check isEqualOrParent.                       *)
(***************************************************************************)

\* s.split("/"): the segments of s, empty ones included.
RECURSIVE SplitSlash(_)
SplitSlash(s) ==
    IF IndexOf(s, "/") = -1 THEN <<s>>
    ELSE <<Substring(s, 0, IndexOf(s, "/"))>> \o SplitSlash(SubstringFrom(s, IndexOf(s, "/") + 1))

\* segs.join("/")
RECURSIVE JoinSlash(_)
JoinSlash(segs) ==
    IF segs = <<>> THEN <<>>
    ELSE IF Len(segs) = 1 THEN segs[1]
    ELSE segs[1] \o <<"/">> \o JoinSlash(Tail(segs))

DotDot == <<".", ".">>

\* normalizeString: resolves "." and ".." segments; res is the segment stack.
RECURSIVE NormalizeSegments(_, _, _)
NormalizeSegments(segs, res, allowAboveRoot) ==
    IF segs = <<>> THEN res
    ELSE LET seg == Head(segs)
             rest == Tail(segs)
         IN  IF seg = <<>> \/ seg = <<".">>
             THEN NormalizeSegments(rest, res, allowAboveRoot)
             ELSE IF seg = DotDot
             THEN IF res # <<>> /\ res[Len(res)] # DotDot
                  THEN NormalizeSegments(rest, SubSeq(res, 1, Len(res) - 1), allowAboveRoot)
                  ELSE IF allowAboveRoot
                  THEN NormalizeSegments(rest, Append(res, DotDot), allowAboveRoot)
                  ELSE NormalizeSegments(rest, res, allowAboveRoot)
             ELSE NormalizeSegments(rest, Append(res, seg), allowAboveRoot)

\* posix.normalize
normalize(path) ==
    IF path = <<>> THEN <<".">>
    ELSE LET isAbsolute == path[1] = "/"
             trailingSeparator == path[Len(path)] = "/"
             n == JoinSlash(NormalizeSegments(SplitSlash(path), <<>>, ~isAbsolute))
         IN  IF n = <<>>
             THEN (IF isAbsolute THEN <<"/">>
                   ELSE IF trailingSeparator THEN <<".", "/">> ELSE <<".">>)
             ELSE (IF isAbsolute THEN <<"/">> ELSE <<>>) \o n
                  \o (IF trailingSeparator THEN <<"/">> ELSE <<>>)

\* posix.join(a, b): empty arguments are skipped, the rest joined by "/"
\* and normalized.
join(a, b) ==
    IF a = <<>> /\ b = <<>> THEN <<".">>
    ELSE IF b = <<>> THEN normalize(a)
    ELSE IF a = <<>> THEN normalize(b)
    ELSE normalize(a \o <<"/">> \o b)

\* isEqualOrParent(base, parentCandidate, ignoreCase = !isLinux = false)
isEqualOrParent(b, parentCandidate) ==
    IF b = parentCandidate THEN TRUE
    ELSE IF b = <<>> \/ parentCandidate = <<>> THEN FALSE
    ELSE IF Len(parentCandidate) > Len(b) THEN FALSE
    ELSE LET pc == IF parentCandidate[Len(parentCandidate)] # "/"
                   THEN parentCandidate \o <<"/">> ELSE parentCandidate
         IN  StartsWith(b, pc)

(***************************************************************************)
(* decodeURIComponent.  A percent escape is one element of a string:       *)
(* "%2e" decodes to ".", and "%" is an escape cut short, on which          *)
(* decodeURIComponent throws a URIError.                                   *)
(***************************************************************************)
DecodeThrows(s) == \E i \in 1..Len(s) : s[i] = "%"
decodeURIComponent(s) == [i \in 1..Len(s) |-> IF s[i] = "%2e" THEN "." ELSE s[i]]

(***************************************************************************)
(* _handleStatic and serveFile.                                            *)
(***************************************************************************)

\* const APP_ROOT = dirname(FileAccess.asFileUri('').fsPath): an absolute
\* directory, here /r.
APP_ROOT == <<"/", "r">>

\* this._staticRoute = `${serverRootPath}/static`, with an empty server root.
staticRoute == <<"/", "s", "t", "a", "t", "i", "c">>

MaxStaticLen == 5
StaticChars == {"/", ".", "r", "%2e", "%"}

\* handle() hands _handleStatic the paths that start with the static route
\* followed by "/".
StaticPathnames == {staticRoute \o <<"/">> \o r : r \in Strs(StaticChars, MaxStaticLen)}

StaticInit ==
    /\ sPathname \in StaticPathnames
    /\ sPc = "start"
    /\ sFilePath = Undefined
    /\ sCacheControl = "none"
    /\ sRes = NoResponse
    /\ sFsOps = <<>>
    /\ sIsBuilt \in BOOLEAN
    /\ sIfNoneMatch = Undefined
    /\ sStat = NoStat
    /\ PathIdle
    /\ ExtIdle
    /\ RootIdle
    /\ LoginIdle
    /\ HandleIdle
    /\ JsonIdle
    /\ UpgradeIdle
    /\ TlsIdle
    /\ CallbackIdle
    /\ KeyIdle
    /\ SecretIdle
    /\ WebglIdle
    /\ IframeIdle

\* serveError: res.writeHead(errorCode, ...); res.end(errorMessage)
serveError(res, errorCode) ==
    [res EXCEPT !.status = errorCode, !.ended = TRUE]

\* A mutant of the containment check: the check is left out.
StaticContainedAlways(filePath) == TRUE

\* isEqualOrParent(filePath, APP_ROOT, !isLinux)
StaticContained(filePath) == isEqualOrParent(filePath, APP_ROOT)

\* this._environmentService.isBuilt ? CacheControl.NO_EXPIRY : CacheControl.ETAG
StaticCacheControl(isBuilt) == IF isBuilt THEN "NO_EXPIRY" ELSE "ETAG"

\* _handleStatic up to its call of serveFile, and serveFile up to its first
\* await (promises.stat).
HandleStatic ==
    /\ sPc = "start"
    /\ IF DecodeThrows(sPathname)
       THEN \* the async function ends with a rejected promise
            /\ sPc' = "rejected"
            /\ UNCHANGED <<sFilePath, sCacheControl, sRes, sFsOps>>
       ELSE LET normalizedPathname == decodeURIComponent(sPathname)
                relativeFilePath == SubstringFrom(normalizedPathname, Len(staticRoute) + 1)
                filePath == join(APP_ROOT, relativeFilePath)
            IN  IF ~StaticContained(filePath)
                THEN /\ sRes' = serveError(sRes, 400)
                     /\ sPc' = "done"
                     /\ UNCHANGED <<sFilePath, sCacheControl, sFsOps>>
                ELSE /\ sFilePath' = filePath
                     /\ sCacheControl' = StaticCacheControl(sIsBuilt)
                     /\ sFsOps' = Append(sFsOps, [op |-> "stat", path |-> filePath])
                     /\ sPc' = "stat"
                     /\ UNCHANGED sRes
    /\ UNCHANGED <<sPathname, sIsBuilt, sIfNoneMatch, sStat, notStatic>>

\* The file's inode, size and modification time as promises.stat may give
\* them, and the If-None-Match headers a request may carry: none, the weak
\* validator of one of the stats, or the same without its W/ prefix.
FileStats == {[outcome |-> "ok", ino |-> "7", size |-> size, mtime |-> "3"] : size \in {"1", "2"}}
IfNoneMatchHeaders ==
    {Undefined,
     <<"W/", "\"", "7", "-", "1", "-", "3", "\"">>,
     <<"W/", "\"", "7", "-", "2", "-", "3", "\"">>,
     <<"\"", "7", "-", "1", "-", "3", "\"">>}

\* A mutant of EtagOf: a strong validator.
EtagOfStrong(stat) == <<"\"", stat.ino, "-", stat.size, "-", stat.mtime, "\"">>

\* `W/"${[stat.ino, stat.size, stat.mtime.getTime()].join('-')}"`
EtagOf(stat) == <<"W/", "\"", stat.ino, "-", stat.size, "-", stat.mtime, "\"">>

\* serveFile after promises.stat: the stat throws (ENOENT or another error)
\* and the answer is 404, or it returns and the answer is 304 or 200 with a
\* read stream piped into the response.
ServeFileStat ==
    /\ sPc = "stat"
    /\ \E stat \in FileStats \cup {[NoStat EXCEPT !.outcome = e] : e \in {"ENOENT", "EACCES"}},
          ifNoneMatch \in IfNoneMatchHeaders :
        /\ sStat' = stat
        /\ sIfNoneMatch' = ifNoneMatch
        /\ IF stat.outcome # "ok"
           THEN /\ sRes' = [status |-> 404, headers |-> {<<"Content-Type", "text/plain">>}, ended |-> TRUE]
                /\ sPc' = "done"
                /\ UNCHANGED sFsOps
           ELSE IF sCacheControl = "ETAG" /\ ifNoneMatch = EtagOf(stat)
           THEN /\ sRes' = [sRes EXCEPT !.status = 304, !.ended = TRUE]
                /\ sPc' = "done"
                /\ UNCHANGED sFsOps
           ELSE /\ sRes' = [sRes EXCEPT
                       !.status = 200,
                       !.headers = {<<"Content-Type", "mime">>} \cup
                           (CASE sCacheControl = "ETAG" -> {<<"Etag", EtagOf(stat)>>}
                              [] sCacheControl = "NO_EXPIRY" -> {<<"Cache-Control", "public, max-age=31536000">>}
                              [] sCacheControl = "NO_CACHING" -> {<<"Cache-Control", "no-store">>}
                              [] OTHER -> {})]
                /\ sFsOps' = Append(sFsOps, [op |-> "createReadStream", path |-> sFilePath])
                /\ sPc' = "streaming"
    /\ UNCHANGED <<sPathname, sFilePath, sCacheControl, sIsBuilt, notStatic>>

\* createReadStream(filePath).pipe(res): the stream ends and ends the response.
ServeFileStreamEnd ==
    /\ sPc = "streaming"
    /\ sRes' = [sRes EXCEPT !.ended = TRUE]
    /\ sPc' = "done"
    /\ UNCHANGED <<sPathname, sFilePath, sCacheControl, sFsOps, sIsBuilt, sIfNoneMatch, sStat, notStatic>>

\* The read stream emits 'error' after the head was written: pipe() stops
\* and nothing ends the response (the stream has no 'error' listener).
ServeFileStreamError ==
    /\ sPc = "streaming"
    /\ sPc' = "failed"
    /\ UNCHANGED <<sPathname, sFilePath, sCacheControl, sRes, sFsOps, sIsBuilt, sIfNoneMatch, sStat, notStatic>>

StaticNext == HandleStatic \/ ServeFileStat \/ ServeFileStreamEnd \/ ServeFileStreamError

SpecStatic == StaticInit /\ [][StaticNext]_vars

\* The directory a relative path leads to from the static root, walked one
\* segment at a time: the stack of directory names below "/".
RECURSIVE Walk(_, _)
Walk(segs, dir) ==
    IF segs = <<>> THEN dir
    ELSE LET seg == Head(segs)
         IN  IF seg = <<>> \/ seg = <<".">> THEN Walk(Tail(segs), dir)
             ELSE IF seg = DotDot
             THEN Walk(Tail(segs), IF dir = <<>> THEN dir ELSE SubSeq(dir, 1, Len(dir) - 1))
             ELSE Walk(Tail(segs), Append(dir, seg))

RootDir == <<<<"r">>>>

\* The request's relative path, URI-decoded.
StaticRelativePath == SubstringFrom(decodeURIComponent(sPathname), Len(staticRoute) + 1)

\* The relative path has ".." segments and leads outside the static root.
ResolvesOutsideRoot ==
    LET segs == SplitSlash(StaticRelativePath)
        dir == Walk(segs, RootDir)
    IN  /\ \E i \in 1..Len(segs) : segs[i] = DotDot
        /\ ~(Len(dir) >= Len(RootDir) /\ SubSeq(dir, 1, Len(RootDir)) = RootDir)

\* A file path is the root or below it, segment by segment.
AtOrBelowRoot(filePath) ==
    LET dir == Walk(SplitSlash(filePath), <<>>)
    IN  Len(dir) >= Len(RootDir) /\ SubSeq(dir, 1, Len(RootDir)) = RootDir

\* C1: a static request whose URI-decoded relative path has ".." segments
\* that resolve outside the static root is answered 400 with no filesystem
\* access (no stat, no read stream); only paths equal to or below the root
\* reach serveFile.
C1_StaticContainment ==
    /\ (sPc \notin {"idle", "start", "rejected"} /\ ResolvesOutsideRoot)
            => (sRes.status = 400 /\ sRes.ended /\ sFsOps = <<>> /\ sFilePath = Undefined)
    /\ sFilePath # Undefined => AtOrBelowRoot(sFilePath)
    /\ \A i \in 1..Len(sFsOps) : AtOrBelowRoot(sFsOps[i].path)

\* /static/%2e./rr: an encoded ".." that leads to the sibling directory /rr,
\* whose name starts with the root's; answered 400.
C1_Witness ==
    /\ sPathname = staticRoute \o <<"/", "%2e", ".", "/", "r", "r">>
    /\ sPc = "done"
    /\ sRes.status = 400
    /\ sFsOps = <<>>


(***************************************************************************)
(* _handleWebExtensionResource.                                            *)
(***************************************************************************)

\* this._webExtensionRoute = `/web-extension-resource`
webExtensionRoute == <<"/", "w", "e", "b", "-", "e", "x", "t">>

\* The configured extensionsGallery.resourceUrlTemplate, parsed: none, or a
\* template whose authority has one dot, none, or two.
ExtTemplates ==
    {NoUri,
     Uri("https", <<"a", ".", "b">>, <<"/">>),
     Uri("https", <<"b">>, <<"/">>),
     Uri("https", <<"a", ".", "a", ".", "b">>, <<"/">>)}

MaxExtLen == 5
ExtChars == {"/", ".", "a", "b", "%"}

\* handle() hands _handleWebExtensionResource the paths that start with the
\* route followed by "/".
ExtPathnames == {webExtensionRoute \o <<"/">> \o r : r \in Strs(ExtChars, MaxExtLen)}

ExtInit ==
    /\ eTemplate \in ExtTemplates
    /\ ePathname \in ExtPathnames
    /\ ePc = "start"
    /\ eUri = NoUri
    /\ eRes = NoResponse
    /\ eOutbound = <<>>
    /\ eReqHeaders = <<>>
    /\ eHost = PlainHost
    /\ eContext = NoContext
    /\ eUpBody = <<>>
    /\ eBuffer = <<>>
    /\ eSent = <<>>
    /\ PathIdle
    /\ StaticIdle
    /\ RootIdle
    /\ LoginIdle
    /\ HandleIdle
    /\ JsonIdle
    /\ UpgradeIdle
    /\ TlsIdle
    /\ CallbackIdle
    /\ KeyIdle
    /\ SecretIdle
    /\ WebglIdle
    /\ IframeIdle

\* A mutant of _getResourceURLTemplateAuthority: the part after the last dot.
getResourceURLTemplateAuthorityLastDot(uri) ==
    LET index == LastIndexOf(uri.authority, ".")
    IN  IF index # -1 THEN SubstringFrom(uri.authority, index + 1) ELSE Undefined

\* _getResourceURLTemplateAuthority
getResourceURLTemplateAuthority(uri) ==
    LET index == IndexOf(uri.authority, ".")
    IN  IF index # -1 THEN SubstringFrom(uri.authority, index + 1) ELSE Undefined

\* URI.parse(path).with({scheme, authority, path}) for the normalized path.
\* The Uri constructor gives an http(s) path its leading slash.
ExtTargetUri(template, path) ==
    LET slash == IndexOf(path, "/")
    IN  Uri(template.scheme,
            Substring(path, 0, slash),
            <<"/">> \o SubstringFrom(path, slash + 1))

\* header.toLowerCase(), for the header names of the model.
toLowerCase(header) ==
    CASE header = "X-Client-Name" -> "x-client-name"
      [] header = "X-Client-Version" -> "x-client-version"
      [] header = "X-Machine-Id" -> "x-machine-id"
      [] header = "X-Client-Commit" -> "x-client-commit"
      [] header = "Cache-Control" -> "cache-control"
      [] header = "Content-Type" -> "content-type"
      [] OTHER -> header

\* obj[header]
HeaderValue(obj, header) == IF header \in DOMAIN obj THEN obj[header] ELSE NoValue

\* value && (isString(value) || value[0])
RequestValueUsable(value) ==
    /\ value.kind # "undefined"
    /\ value.kind = "string" => value.items[1] # ""
    /\ value.kind = "array" => (value.items # <<>> /\ value.items[1] # "")

\* The closure setRequestHeader: acc.headers is the headers object it
\* fills, acc.lookups the names it has looked up in req.headers.
RECURSIVE setRequestHeader(_, _, _)
setRequestHeader(acc, reqHeaders, header) ==
    LET value == HeaderValue(reqHeaders, header)
        looked == [acc EXCEPT !.lookups = Append(@, header)]
    IN  IF RequestValueUsable(value)
        THEN [looked EXCEPT !.headers = (header :> value.items[1]) @@ @]
        ELSE IF header # toLowerCase(header)
        THEN setRequestHeader(looked, reqHeaders, toLowerCase(header))
        ELSE looked

\* A mutant of RequestHeaders: every usable header of the client is passed on.
RequestHeadersAll(reqHeaders) ==
    [headers |-> [h \in {n \in DOMAIN reqHeaders : RequestValueUsable(reqHeaders[n])}
                    |-> reqHeaders[h].items[1]],
     lookups |-> <<>>]

\* const headers = {}; setRequestHeader('X-Client-Name'); ... ('X-Client-Commit')
RequestHeaders(reqHeaders) ==
    setRequestHeader(
        setRequestHeader(
            setRequestHeader(
                setRequestHeader([headers |-> <<>>, lookups |-> <<>>], reqHeaders, "X-Client-Name"),
                reqHeaders, "X-Client-Version"),
            reqHeaders, "X-Machine-Id"),
        reqHeaders, "X-Client-Commit")

\* if (value): a non-empty string, or any array
ResponseValueUsable(value) ==
    /\ value.kind # "undefined"
    /\ value.kind = "string" => value.items[1] # ""

\* The closure setResponseHeader.
RECURSIVE setResponseHeader(_, _, _)
setResponseHeader(responseHeaders, upstreamHeaders, header) ==
    LET value == HeaderValue(upstreamHeaders, header)
    IN  IF ResponseValueUsable(value)
        THEN (header :> value) @@ responseHeaders
        ELSE IF header # toLowerCase(header)
        THEN setResponseHeader(responseHeaders, upstreamHeaders, toLowerCase(header))
        ELSE responseHeaders

\* const responseHeaders = {}; setResponseHeader('Cache-Control'); setResponseHeader('Content-Type')
ResponseHeaders(upstreamHeaders) ==
    setResponseHeader(setResponseHeader(<<>>, upstreamHeaders, "Cache-Control"),
                      upstreamHeaders, "Content-Type")

\* A headers object as the set of its name/value pairs.
HeaderPairs(obj) == {<<h, obj[h]>> : h \in DOMAIN obj}

\* What is written as a response body: an error message or a chunk of data.
TextBody(t) == [kind |-> "text", text |-> t, status |-> 0, chunks |-> <<>>]
FailedWithStatus(status) ==
    [kind |-> "Request failed with status", text |-> "", status |-> status, chunks |-> <<>>]
Chunks(cs) == [kind |-> "chunks", text |-> "", status |-> 0, chunks |-> cs]

\* A mutant of ErrorMessage: always the generic message.
ErrorMessageGeneric(text, status) == FailedWithStatus(status)

\* text || `Request failed with status ${status}`, text being null when
\* asTextOrError threw.
ErrorMessage(text, status) ==
    IF text.outcome = "text" /\ text.text # ""
    THEN TextBody(text.text)
    ELSE FailedWithStatus(status)

\* _handleWebExtensionResource up to its first await (the upstream request).
HandleWebExtensionResource ==
    /\ ePc = "start"
    /\ IF eTemplate = NoUri
       THEN /\ eRes' = serveError(eRes, 500)
            /\ eSent' = <<TextBody("No extension gallery service configured.")>>
            /\ ePc' = "done"
            /\ UNCHANGED <<eUri, eOutbound>>
       ELSE IF DecodeThrows(ePathname)
       THEN \* the async function ends with a rejected promise
            /\ ePc' = "rejected"
            /\ UNCHANGED <<eUri, eRes, eOutbound, eSent>>
       ELSE LET normalizedPathname == decodeURIComponent(ePathname)
                path == normalize(SubstringFrom(normalizedPathname, Len(webExtensionRoute) + 1))
                uri == ExtTargetUri(eTemplate, path)
                set == RequestHeaders(eReqHeaders)
            IN  /\ eUri' = uri
                /\ IF getResourceURLTemplateAuthority(eTemplate) # getResourceURLTemplateAuthority(uri)
                   THEN /\ eRes' = serveError(eRes, 403)
                        /\ eSent' = <<TextBody("Request Forbidden")>>
                        /\ ePc' = "done"
                        /\ UNCHANGED eOutbound
                   ELSE /\ eOutbound' = Append(eOutbound,
                                [type |-> "GET", url |-> uri,
                                 headers |-> set.headers, lookups |-> set.lookups])
                        /\ ePc' = "request"
                        /\ UNCHANGED <<eRes, eSent>>
    /\ UNCHANGED <<eTemplate, ePathname, eReqHeaders, eHost, eContext, eUpBody, eBuffer, notExt>>

\* The upstream request settles: it rejects, or it answers with a status
\* (0: no status, taken as 500).  A status other than 200 is relayed as an
\* error, with the text asTextOrError gives if any; on 200 the head is
\* written and streamToBuffer starts to collect the body.
ExtUpstreamSettles ==
    /\ ePc = "request"
    /\ \/ /\ ePc' = "rejected"
          /\ UNCHANGED <<eRes, eContext, eUpBody, eSent>>
       \/ \E context \in eHost :
            LET status == IF context.statusCode = 0 THEN 500 ELSE context.statusCode
            IN  /\ eContext' = context
                /\ IF status # 200
                   THEN /\ eRes' = serveError(eRes, status)
                        /\ eSent' = <<ErrorMessage(context.text, status)>>
                        /\ ePc' = "done"
                        /\ UNCHANGED eUpBody
                   ELSE /\ eRes' = [eRes EXCEPT
                                !.status = 200,
                                !.headers = HeaderPairs(ResponseHeaders(context.headers))]
                        /\ eUpBody' = context.body
                        /\ ePc' = "body"
                        /\ UNCHANGED eSent
    /\ UNCHANGED <<eTemplate, ePathname, eUri, eOutbound, eReqHeaders, eHost, eBuffer, notExt>>

\* A chunk of context.stream arrives: streamToBuffer keeps it, and nothing
\* goes to the client.
ExtChunkArrives ==
    /\ ePc = "body"
    /\ eUpBody # <<>>
    /\ eBuffer' = Append(eBuffer, Head(eUpBody))
    /\ eUpBody' = Tail(eUpBody)
    /\ UNCHANGED <<eTemplate, ePathname, ePc, eUri, eRes, eOutbound, eReqHeaders, eHost, eContext, eSent, notExt>>

\* context.stream ends and streamToBuffer settles: res.end(buffer.buffer)
\* writes everything collected; or the stream fails, streamToBuffer rejects
\* and nothing is written.
ExtBodyBuffered ==
    /\ ePc = "body"
    /\ eUpBody = <<>>
    /\ IF eContext.readable
       THEN /\ eRes' = [eRes EXCEPT !.ended = TRUE]
            /\ eSent' = Append(eSent, Chunks(eBuffer))
            /\ ePc' = "done"
       ELSE /\ ePc' = "rejected"
            /\ UNCHANGED <<eRes, eSent>>
    /\ UNCHANGED <<eTemplate, ePathname, eUri, eOutbound, eReqHeaders, eHost, eContext, eUpBody, eBuffer, notExt>>

ExtNext == HandleWebExtensionResource \/ ExtUpstreamSettles \/ ExtChunkArrives \/ ExtBodyBuffered

SpecExt == ExtInit /\ [][ExtNext]_vars

\* The parts of an authority after its first dot: one, or none.
AfterFirstDot(authority) ==
    {SubSeq(authority, i + 1, Len(authority)) :
        i \in {k \in 1..Len(authority) :
                  authority[k] = "." /\ \A j \in 1..(k - 1) : authority[j] # "."}}

\* C2: an extension-resource request whose target authority does not share
\* the suffix of the configured template's authority (the part after the
\* first ".") is answered 403 and no request is issued through the request
\* service; a request is issued only after the comparison succeeded.
C2_ExtAllowList ==
    /\ (ePc \in {"request", "body", "done"} /\ eTemplate # NoUri
            /\ AfterFirstDot(eUri.authority) # AfterFirstDot(eTemplate.authority))
        => (eRes.status = 403 /\ eRes.ended /\ eOutbound = <<>>)
    /\ \A i \in 1..Len(eOutbound) :
        /\ eTemplate # NoUri
        /\ AfterFirstDot(eOutbound[i].url.authority) = AfterFirstDot(eTemplate.authority)

\* Template a.a.b (suffix a.b) and the request /web-ext/b.b/a: the target
\* b.b shares the top-level part only, and is refused.
C2_Witness ==
    /\ eTemplate = Uri("https", <<"a", ".", "a", ".", "b">>, <<"/">>)
    /\ ePathname = webExtensionRoute \o <<"/", "b", ".", "b", "/", "a">>
    /\ ePc = "done"
    /\ eRes.status = 403
    /\ eOutbound = <<>>


(***************************************************************************)
(* Query strings: querystring.parse (url.parse(..., true)) and             *)
(* querystring.stringify (url.format).  A parsed query is the object's     *)
(* entries in insertion order, each a key with its values: one value is a  *)
(* string, several are an array.  Keys and values are plain words, which   *)
(* escaping leaves as they are.                                            *)
(***************************************************************************)

\* connectionTokenQueryName and connectionTokenCookieName (vs/base/common/network)
connectionTokenQueryName == "tkn"
connectionTokenCookieName == "vscode-tkn"

HasKey(query, key) == \E i \in 1..Len(query) : query[i].key = key

\* query[key]: the values of the key, <<>> for undefined
QueryGet(query, key) ==
    IF HasKey(query, key)
    THEN query[CHOOSE i \in 1..Len(query) : query[i].key = key].values
    ELSE <<>>

\* querystring.parse: a repeated key collects its values in an array
RECURSIVE ParseQueryInto(_, _)
ParseQueryInto(pairs, query) ==
    IF pairs = <<>> THEN query
    ELSE LET k == Head(pairs)[1]
             v == Head(pairs)[2]
         IN  ParseQueryInto(Tail(pairs),
                IF HasKey(query, k)
                THEN [i \in 1..Len(query) |->
                        IF query[i].key = k
                        THEN [query[i] EXCEPT !.values = Append(@, v)]
                        ELSE query[i]]
                ELSE Append(query, [key |-> k, values |-> <<v>>]))

ParseQuery(pairs) == ParseQueryInto(pairs, <<>>)

\* querystring.stringify: key=value for every value of every key, in order
RECURSIVE StringifyQuery(_)
StringifyQuery(query) ==
    IF query = <<>> THEN <<>>
    ELSE [i \in 1..Len(Head(query).values) |-> <<Head(query).key, Head(query).values[i]>>]
         \o StringifyQuery(Tail(query))

\* typeof v === 'string' for a query value
IsString(values) == Len(values) = 1

\* A mutant of NewQuery: only the first value of each key is copied.
RECURSIVE NewQueryFirstValue(_)
NewQueryFirstValue(query) ==
    IF query = <<>> THEN <<>>
    ELSE (IF Head(query).key # connectionTokenQueryName
          THEN <<[Head(query) EXCEPT !.values = <<@[1]>>]>> ELSE <<>>)
         \o NewQueryFirstValue(Tail(query))

\* for (const key in parsedUrl.query) if (key !== connectionTokenQueryName)
\*     newQuery[key] = parsedUrl.query[key]
RECURSIVE NewQuery(_)
NewQuery(query) ==
    IF query = <<>> THEN <<>>
    ELSE (IF Head(query).key # connectionTokenQueryName THEN <<Head(query)>> ELSE <<>>)
         \o NewQuery(Tail(query))

(***************************************************************************)
(* The CSP hash computer.  HTML is a string of tokens: the tags <script>   *)
(* and </script> (and <SCRIPT>, for the i flag), the placeholder {{K}} of  *)
(* the template, a line break CRLF or LF, and words.                       *)
(***************************************************************************)
IsScriptOpen(t) == t \in {"<script>", "<SCRIPT>"}
IsScriptClose(t) == t = "</script>"

\* match[1].replace(/\r\n/g, '\n')
StripCr(script) == [i \in 1..Len(script) |-> IF script[i] = "CRLF" THEN "LF" ELSE script[i]]

\* `'sha256-${hash}'`: SHA-256 is taken as collision-free, so the token of a
\* script is the script itself behind the prefix.
Sha256Token(script) == <<"sha256-">> \o script

\* regex.exec from lastIndex: the leftmost <script> that has a </script> at
\* least one token on, and (non-greedy) the nearest such </script>.
MatchStart(content, from) ==
    {i \in from..Len(content) :
        /\ IsScriptOpen(content[i])
        /\ \E j \in (i + 2)..Len(content) : IsScriptClose(content[j])}
Least(S) == CHOOSE x \in S : \A y \in S : x <= y

\* _getScriptCspHashes
RECURSIVE ScanScripts(_, _)
ScanScripts(content, from) ==
    IF MatchStart(content, from) = {} THEN <<>>
    ELSE LET i == Least(MatchStart(content, from))
             j == Least({k \in (i + 2)..Len(content) : IsScriptClose(content[k])})
             script == StripCr(SubSeq(content, i + 1, j - 1))
         IN  <<Sha256Token(script)>> \o ScanScripts(content, j + 1)

\* A mutant of getScriptCspHashes: the hashes of the first render are kept
\* and handed out again.
getScriptCspHashesCached(content) ==
    IF \E i \in 1..Len(rLog) : rLog[i].res.status = 200
    THEN rLog[CHOOSE i \in 1..Len(rLog) : rLog[i].res.status = 200].res.scriptHashes
    ELSE ScanScripts(content, 1)

getScriptCspHashes(content) == ScanScripts(content, 1)

(***************************************************************************)
(* _handleRoot.                                                            *)
(***************************************************************************)

\* The value of the connection token.
TokenValue == "T"

\* this._basePath
basePath == <<"/">>

\* workbenchTemplate.replace(/\{\{([^}]+)\}\}/g, (_, key) => values[key] ?? 'undefined')
RECURSIVE Substitute(_, _)
Substitute(template, value) ==
    IF template = <<>> THEN <<>>
    ELSE (IF Head(template) = "{{K}}" THEN value ELSE <<Head(template)>>)
         \o Substitute(Tail(template), value)

\* The caller's check before handle() is invoked ("only invoked after the
\* connection token has been validated"): no token is configured, or the
\* query parameter or the cookie holds it.
RequestHasValidConnectionToken(url, cookieValue) ==
    \/ rTokenType = "None"
    \/ QueryGet(ParseQuery(url.pairs), connectionTokenQueryName) = <<TokenValue>>
    \/ cookieValue = TokenValue

\* A mutant of SerializeTokenCookie: a session cookie, without Max-Age.
SerializeTokenCookieNoMaxAge(value) ==
    Cookie(connectionTokenCookieName, value, "lax", 0)

\* cookie.serialize(connectionTokenCookieName, value, {sameSite: 'lax', maxAge: 60 * 60 * 24 * 7})
SerializeTokenCookie(value) ==
    Cookie(connectionTokenCookieName, value, "lax", 60 * 60 * 24 * 7)

\* A mutant of RedirectCookie: the redirect sets a cookie with no value.
RedirectCookieEmpty(queryConnectionToken) == SerializeTokenCookie("")

\* responseHeaders['Set-Cookie'] of the redirect
RedirectCookie(queryConnectionToken) == SerializeTokenCookie(queryConnectionToken)

\* A mutant of CspSource: the hashes are computed from the template as read.
CspSourceTemplate(workbenchTemplate, data) == workbenchTemplate

\* The content handed to _getScriptCspHashes: data, the substituted template.
CspSource(workbenchTemplate, data) == data

\* A mutant of TemplateReadFailure: the headers of the page are sent with
\* the 404.
TemplateReadFailureWithPageHeaders(res) ==
    [res EXCEPT !.status = 404, !.contentType = "text/html", !.hasCsp = TRUE,
                !.setCookie = SerializeTokenCookie(TokenValue),
                !.body = <<"Not found">>, !.templateRead = "failed", !.ended = TRUE]

\* The catch block of the template read:
\* res.writeHead(404, { 'Content-Type': 'text/plain' }); res.end('Not found')
TemplateReadFailure(res) ==
    [res EXCEPT !.status = 404, !.contentType = "text/plain",
                !.body = <<"Not found">>, !.templateRead = "failed", !.ended = TRUE]

Exchange == [url |-> rUrl, cookie |-> rCookie, value |-> rValue, res |-> rRes]

\* The caller answers a request that fails the connection-token check.
RejectRequest ==
    /\ rPc = "start"
    /\ ~RequestHasValidConnectionToken(rUrl, rCookie)
    /\ rRes' = [rRes EXCEPT !.status = 403, !.ended = TRUE]
    /\ rLog' = Append(rLog, [Exchange EXCEPT !.res = rRes'])
    /\ rPc' = "done"
    /\ UNCHANGED <<rTokenType, rTemplate, rUrl, rCookie, rValue, notRoot>>

InjectedValues == {<<"v1">>, <<"v2">>}

\* _handleRoot up to the read of the template file: the token-normalizing
\* redirect, or the values of the render.
HandleRoot ==
    /\ rPc = "start"
    /\ RequestHasValidConnectionToken(rUrl, rCookie)
    /\ LET query == ParseQuery(rUrl.pairs)
           queryConnectionToken == QueryGet(query, connectionTokenQueryName)
       IN  IF IsString(queryConnectionToken)
           THEN /\ rRes' = [rRes EXCEPT
                        !.status = 302,
                        !.setCookie = RedirectCookie(queryConnectionToken[1]),
                        !.location = Url(rUrl.pathname, StringifyQuery(NewQuery(query))),
                        !.ended = TRUE]
                /\ rLog' = Append(rLog, [Exchange EXCEPT !.res = rRes'])
                /\ rPc' = "done"
                /\ UNCHANGED rValue
           ELSE /\ rValue' \in InjectedValues
                /\ rPc' = "render"
                /\ UNCHANGED <<rRes, rLog>>
    /\ UNCHANGED <<rTokenType, rTemplate, rUrl, rCookie, notRoot>>

\* _handleRoot from the read of the template file on: 404 if it cannot be
\* read, else the substituted page with its Content-Security-Policy.
RootTemplateRead ==
    /\ rPc = "render"
    /\ \E readable \in BOOLEAN :
        IF ~readable
        THEN rRes' = TemplateReadFailure(rRes)
        ELSE LET workbenchTemplate == rTemplate
                 data == Substitute(workbenchTemplate, rValue)
             IN  rRes' = [rRes EXCEPT
                        !.status = 200,
                        !.templateRead = "ok",
                        !.contentType = "text/html",
                        !.hasCsp = TRUE,
                        !.scriptHashes = getScriptCspHashes(CspSource(workbenchTemplate, data)),
                        !.setCookie = IF rTokenType # "None"
                                      THEN SerializeTokenCookie(TokenValue) ELSE NoCookie,
                        !.body = data,
                        !.ended = TRUE]
    /\ rLog' = Append(rLog, [Exchange EXCEPT !.res = rRes'])
    /\ rPc' = "done"
    /\ UNCHANGED <<rTokenType, rTemplate, rUrl, rCookie, rValue, notRoot>>

MaxExchanges == 3

\* The client follows a redirect: it keeps the cookie of Set-Cookie and
\* requests the Location, presenting that cookie.
ClientFollowsRedirect ==
    /\ rPc = "done"
    /\ rRes.status = 302
    /\ Len(rLog) < MaxExchanges
    /\ rUrl' = rRes.location
    /\ rCookie' = rRes.setCookie.value
    /\ rRes' = NoRootResponse
    /\ rPc' = "start"
    /\ UNCHANGED <<rTokenType, rTemplate, rValue, rLog, notRoot>>

MaxRenders == 2

\* The client requests the page again.
ClientReloads ==
    /\ rPc = "done"
    /\ Len(rLog) < MaxRenders
    /\ rRes' = NoRootResponse
    /\ rPc' = "start"
    /\ UNCHANGED <<rTokenType, rTemplate, rUrl, rCookie, rValue, rLog, notRoot>>

\* ---- the token-normalizing redirect: a root request with any query ----
MaxQueryLen == 3
QueryKeys == {connectionTokenQueryName, "j", "k"}
QueryValues == {TokenValue, "x"}
QueryStrings == Strs(QueryKeys \X QueryValues, MaxQueryLen)

RedirectInit ==
    /\ rTokenType \in {"None", "Mandatory"}
    /\ rTemplate = <<"<script>", "{{K}}", "</script>">>
    /\ rUrl \in {Url(basePath, q) : q \in QueryStrings}
    /\ rCookie \in {"", TokenValue, "x"}
    /\ rPc = "start"
    /\ rValue = <<>>
    /\ rRes = NoRootResponse
    /\ rLog = <<>>
    /\ PathIdle
    /\ StaticIdle
    /\ ExtIdle
    /\ LoginIdle
    /\ HandleIdle
    /\ JsonIdle
    /\ UpgradeIdle
    /\ TlsIdle
    /\ CallbackIdle
    /\ KeyIdle
    /\ SecretIdle
    /\ WebglIdle
    /\ IframeIdle

RedirectNext == RejectRequest \/ HandleRoot \/ RootTemplateRead \/ ClientFollowsRedirect

SpecRedirect == RedirectInit /\ [][RedirectNext]_vars

\* ---- rendering: root requests of a client that holds the cookie ----
MaxTemplateLen == 4
TemplateTokens == {"<script>", "<SCRIPT>", "</script>", "{{K}}", "CRLF", "w"}

RenderInit ==
    /\ rTokenType = "Mandatory"
    /\ rTemplate \in Strs(TemplateTokens, MaxTemplateLen)
    /\ rUrl = Url(basePath, <<>>)
    /\ rCookie = TokenValue
    /\ rPc = "start"
    /\ rValue = <<>>
    /\ rRes = NoRootResponse
    /\ rLog = <<>>
    /\ PathIdle
    /\ StaticIdle
    /\ ExtIdle
    /\ LoginIdle
    /\ HandleIdle
    /\ JsonIdle
    /\ UpgradeIdle
    /\ TlsIdle
    /\ CallbackIdle
    /\ KeyIdle
    /\ SecretIdle
    /\ WebglIdle
    /\ IframeIdle

RenderNext == HandleRoot \/ RootTemplateRead \/ ClientReloads

SpecRender == RenderInit /\ [][RenderNext]_vars


\* The values a URL's query string gives a key, in order.
RECURSIVE ValuesOf(_, _)
ValuesOf(pairs, key) ==
    IF pairs = <<>> THEN <<>>
    ELSE (IF Head(pairs)[1] = key THEN <<Head(pairs)[2]>> ELSE <<>>)
         \o ValuesOf(Tail(pairs), key)

\* The request carries the connection token as a query parameter: the
\* parameter appears once, and its value is the token (any value when no
\* token is configured).
CarriesToken(url) ==
    /\ Len(ValuesOf(url.pairs, connectionTokenQueryName)) = 1
    /\ rTokenType = "None" \/ ValuesOf(url.pairs, connectionTokenQueryName) = <<TokenValue>>

Redirects == {i \in 1..Len(rLog) : rLog[i].res.status = 302}

\* C3: a root request carrying the connection token as a query parameter is
\* answered by exactly one redirect (302, the token re-issued as a cookie);
\* the follow-up request to the Location, presenting only that cookie, is
\* answered with the page (200, or 404 only if the template file cannot be
\* read) and no further redirect, and the final URL holds no token parameter.
C3_TokenRoundTrip ==
    (rLog # <<>> /\ CarriesToken(rLog[1].url)) =>
        /\ rLog[1].res.status = 302
        /\ rLog[1].res.setCookie.name = connectionTokenCookieName
        /\ <<rLog[1].res.setCookie.value>> = ValuesOf(rLog[1].url.pairs, connectionTokenQueryName)
        /\ Redirects = {1}
        /\ Len(rLog) <= 2
        /\ (rPc = "done" /\ Len(rLog) = 1) => rRes.status = 302
        /\ Len(rLog) = 2 =>
            /\ rLog[2].url = rLog[1].res.location
            /\ rLog[2].cookie = rLog[1].res.setCookie.value
            /\ ValuesOf(rLog[2].url.pairs, connectionTokenQueryName) = <<>>
            /\ \/ rLog[2].res.status = 200
               \/ rLog[2].res.status = 404 /\ rLog[2].res.templateRead = "failed"

\* ?k=x&tkn=T without a cookie, a token being configured: one redirect, then
\* the page by the cookie alone at ?k=x.
C3_Witness ==
    /\ rTokenType = "Mandatory"
    /\ Len(rLog) = 2
    /\ rLog[1].url = Url(basePath, <<<<"k", "x">>, <<connectionTokenQueryName, TokenValue>>>>)
    /\ rLog[1].cookie = ""
    /\ rLog[1].res.status = 302
    /\ rLog[2].url = Url(basePath, <<<<"k", "x">>>>)
    /\ rLog[2].cookie = TokenValue
    /\ rLog[2].res.status = 200

\* C4: the token-normalizing redirect goes to the same URL with only the
\* token parameter stripped: the Location has the request's pathname and
\* every other query parameter with its original value(s); no parameter is
\* added, dropped or changed.
C4_RedirectLocation ==
    \A i \in Redirects :
        LET from == rLog[i].url
            to == rLog[i].res.location
        IN  /\ to.pathname = from.pathname
            /\ ValuesOf(to.pairs, connectionTokenQueryName) = <<>>
            /\ \A key \in QueryKeys \ {connectionTokenQueryName} :
                    ValuesOf(to.pairs, key) = ValuesOf(from.pairs, key)
            /\ \A n \in 1..Len(to.pairs) : to.pairs[n][1] \in QueryKeys
            /\ Len(to.pairs) = Len(from.pairs) - Len(ValuesOf(from.pairs, connectionTokenQueryName))

\* ?k=T&tkn=T&k=x: the repeated parameter k keeps both of its values.
C4_Witness ==
    /\ rLog # <<>>
    /\ rLog[1].url = Url(basePath, <<<<"k", TokenValue>>, <<connectionTokenQueryName, TokenValue>>, <<"k", "x">>>>)
    /\ rLog[1].res.status = 302
    /\ rLog[1].res.location = Url(basePath, <<<<"k", TokenValue>>, <<"k", "x">>>>)

\* The inline script blocks of an HTML document, as HTML has them: from each
\* <script> to the next </script>, in document order; a block may be empty.
FirstIn(S) == CHOOSE x \in S : \A y \in S : x <= y
RECURSIVE InlineScripts(_, _)
InlineScripts(html, from) ==
    LET opens == {i \in from..Len(html) : IsScriptOpen(html[i])}
    IN  IF opens = {} THEN <<>>
        ELSE LET i == FirstIn(opens)
                 closes == {j \in (i + 1)..Len(html) : IsScriptClose(html[j])}
             IN  IF closes = {} THEN <<>>
                 ELSE <<SubSeq(html, i + 1, FirstIn(closes) - 1)>>
                      \o InlineScripts(html, FirstIn(closes) + 1)

\* One token per inline script block, in document order.
BlockTokens(html) ==
    LET blocks == InlineScripts(html, 1)
    IN  [k \in 1..Len(blocks) |-> Sha256Token(StripCr(blocks[k]))]

Renders == {i \in 1..Len(rLog) : rLog[i].res.status = 200}

HasPlaceholder(html) == \E n \in 1..Len(html) : html[n] = "{{K}}"

PlaceholderInScript ==
    \E k \in 1..Len(ScanScripts(rTemplate, 1)) :
        HasPlaceholder(ScanScripts(rTemplate, 1)[k])

ShortCap == 2
LongCap == 12

NewEntry == [short |-> 0, long |-> 0]

\* The client's ledger entry, made on its first attempt.
EntryOf(client) == IF client \in DOMAIN ledger THEN ledger[client] ELSE NewEntry

RateLimited == Response("RateLimited", "Login rate limited!", 0)
InvalidCredential == Response("InvalidCredential", "Incorrect password", 0)
\* a Session cookie with a 7-day sliding expiry
Session == Response("Session", "", 60 * 60 * 24 * 7)

\* A mutant of attemptLogin: the credential is compared first, and a correct
\* one is let through whatever the counters say.
attemptLoginCredentialFirst(entry, credentialValid) ==
    IF credentialValid
    THEN [entry |-> [short |-> entry.short + 1, long |-> entry.long + 1],
          steps |-> <<"compare">>, response |-> Session]
    ELSE IF entry.short >= ShortCap
    THEN [entry |-> entry, steps |-> <<"compare", "short">>, response |-> RateLimited]
    ELSE IF entry.long >= LongCap
    THEN [entry |-> entry, steps |-> <<"compare", "short", "long">>, response |-> RateLimited]
    ELSE [entry |-> [short |-> entry.short + 1, long |-> entry.long + 1],
          steps |-> <<"compare", "short", "long">>, response |-> InvalidCredential]

\* A mutant of attemptLogin: a successful login starts the counters afresh.
attemptLoginResetOnSuccess(entry, credentialValid) ==
    IF entry.short >= ShortCap
    THEN [entry |-> entry, steps |-> <<"short">>, response |-> RateLimited]
    ELSE IF entry.long >= LongCap
    THEN [entry |-> entry, steps |-> <<"short", "long">>, response |-> RateLimited]
    ELSE IF credentialValid
    THEN [entry |-> NewEntry, steps |-> <<"short", "long", "compare">>, response |-> Session]
    ELSE [entry |-> [short |-> entry.short + 1, long |-> entry.long + 1],
          steps |-> <<"short", "long", "compare">>, response |-> InvalidCredential]

\* attemptLogin(clientId, credential) on the client's entry: the short-window
\* and then the long-window counter are checked against their caps before
\* the credential is compared; an attempt that passes counts in both windows.
attemptLogin(entry, credentialValid) ==
    IF entry.short >= ShortCap
    THEN [entry |-> entry, steps |-> <<"short">>, response |-> RateLimited]
    ELSE IF entry.long >= LongCap
    THEN [entry |-> entry, steps |-> <<"short", "long">>, response |-> RateLimited]
    ELSE [entry |-> [short |-> entry.short + 1, long |-> entry.long + 1],
          steps |-> <<"short", "long", "compare">>,
          response |-> IF credentialValid THEN Session ELSE InvalidCredential]

LoginInit ==
    /\ ledger = <<>>
    /\ issued = [c \in Clients |-> [short |-> 0, long |-> 0]]
    /\ lastOp = NoOp
    /\ PathIdle
    /\ StaticIdle
    /\ ExtIdle
    /\ RootIdle
    /\ HandleIdle
    /\ JsonIdle
    /\ UpgradeIdle
    /\ TlsIdle
    /\ CallbackIdle
    /\ KeyIdle
    /\ SecretIdle
    /\ WebglIdle
    /\ IframeIdle

UpTo(n, cap) == IF n < cap THEN n + 1 ELSE cap

\* A client submits a credential.
AttemptLogin(client, credential) ==
    LET out == attemptLogin(EntryOf(client), credential = "good")
    IN  /\ ledger' = (client :> out.entry) @@ ledger
        /\ issued' = [issued EXCEPT ![client] =
                        [short |-> UpTo(@.short, ShortCap + 1),
                         long |-> UpTo(@.long, LongCap + 1)]]
        /\ lastOp' = [op |-> "attemptLogin", client |-> client, credential |-> credential,
                      steps |-> out.steps,
                      before |-> EntryOf(client),
                      exceeded |-> [short |-> issued[client].short > ShortCap,
                                    long |-> issued[client].long > LongCap],
                      response |-> out.response]
        /\ UNCHANGED notLogin

\* The client's short window runs out.
ExpireShort(client) ==
    /\ client \in DOMAIN ledger
    /\ ledger' = [ledger EXCEPT ![client].short = 0]
    /\ issued' = [issued EXCEPT ![client].short = 0]
    /\ lastOp' = [NoOp EXCEPT !.op = "expire", !.client = client]
    /\ UNCHANGED notLogin

\* The client's long window runs out (and with it the short one).
ExpireLong(client) ==
    /\ client \in DOMAIN ledger
    /\ ledger' = [ledger EXCEPT ![client] = NewEntry]
    /\ issued' = [issued EXCEPT ![client] = [short |-> 0, long |-> 0]]
    /\ lastOp' = [NoOp EXCEPT !.op = "expire", !.client = client]
    /\ UNCHANGED notLogin

LoginNext ==
    \/ \E client \in Clients, credential \in {"good", "bad"} : AttemptLogin(client, credential)
    \/ \E client \in Clients : ExpireShort(client)
    \/ \E client \in Clients : ExpireLong(client)

SpecLogin == LoginInit /\ [][LoginNext]_vars

AttemptStep(client) == lastOp'.op = "attemptLogin" /\ lastOp'.client = client

\* C6: attemptLogin checks the short-window and then the long-window counter
\* before the credential is compared, and a cap hit returns RateLimited
\* without a comparison; an attempt that passes the check counts once in
\* both windows whether the credential is valid or not, and a successful
\* login leaves the counters neither reset nor refunded.
C6_CheckBeforeCompare ==
    /\ [](lastOp.op = "attemptLogin" =>
            /\ lastOp.steps \in {<<"short">>, <<"short", "long">>, <<"short", "long", "compare">>}
            /\ lastOp.response.result = "RateLimited" <=> lastOp.steps[Len(lastOp.steps)] # "compare"
            /\ lastOp.steps = <<"short">> <=> lastOp.before.short >= ShortCap)
    /\ [][\A client \in Clients : AttemptStep(client) =>
            /\ lastOp'.response.result \in {"Session", "InvalidCredential"} =>
                    /\ ledger'[client].short = lastOp'.before.short + 1
                    /\ ledger'[client].long = lastOp'.before.long + 1
            /\ lastOp'.response.result = "Session" <=>
                    (lastOp'.credential = "good" /\ lastOp'.steps[Len(lastOp'.steps)] = "compare")
            /\ lastOp'.response.result = "RateLimited" => ledger'[client] = lastOp'.before
            /\ \A other \in DOMAIN ledger \ {client} : ledger'[other] = ledger[other]]_vars

\* A second successful login within the minute: the first one was counted
\* and not refunded, and this one is counted too.
C6_Witness ==
    /\ lastOp.op = "attemptLogin"
    /\ lastOp.response.result = "Session"
    /\ lastOp.before = [short |-> 1, long |-> 1]
    /\ ledger[lastOp.client] = [short |-> ShortCap, long |-> 2]

(***************************************************************************)
(* handle(): the dispatch of a request to its route handler, the callback  *)
(* page, and the promise handle() returns.  A handler is an async          *)
(* function: an error thrown in it, before or after its first await,       *)
(* rejects the promise it returned.  handle() returns that promise without *)
(* awaiting it, so its catch block runs only for an error thrown by        *)
(* handle()'s own statements.                                              *)
(***************************************************************************)

\* this._callbackRoute = `${serverRootPath}/callback`, with an empty server root.
callbackRoute == <<"/", "c", "a", "l", "l", "b", "a", "c", "k">>

\* A mutant of MatchesRoute: the character after the route is not looked at.
MatchesRouteNoSlash(pathname, route) == StartsWith(pathname, route)

\* pathname.startsWith(route) && pathname.charCodeAt(route.length) === CharCode.Slash
MatchesRoute(pathname, route) ==
    /\ StartsWith(pathname, route)
    /\ Len(pathname) > Len(route)
    /\ pathname[Len(route) + 1] = "/"

\* The chain of if statements of handle().
Route(pathname) ==
    IF MatchesRoute(pathname, staticRoute) THEN "_handleStatic"
    ELSE IF pathname = basePath THEN "_handleRoot"
    ELSE IF pathname = callbackRoute THEN "_handleCallback"
    ELSE IF MatchesRoute(pathname, webExtensionRoute) THEN "_handleWebExtensionResource"
    ELSE "serveError"

MaxHandleLen == 2
HandleChars == {"/", "f", "%"}

\* The pathnames of the requests: the routes and what may follow them.
HandlePathnames ==
    {prefix \o suffix :
        prefix \in {<<>>, staticRoute, callbackRoute, webExtensionRoute},
        suffix \in Strs(HandleChars, MaxHandleLen)}

HandleInit ==
    /\ hPathname \in HandlePathnames \cup {Undefined}
    /\ hPc = "start"
    /\ hHandlers = <<>>
    /\ hError = "none"
    /\ hRes = NoResponse
    /\ hPromise = "pending"
    /\ PathIdle
    /\ StaticIdle
    /\ ExtIdle
    /\ RootIdle
    /\ LoginIdle
    /\ JsonIdle
    /\ UpgradeIdle
    /\ TlsIdle
    /\ CallbackIdle
    /\ KeyIdle
    /\ SecretIdle
    /\ WebglIdle
    /\ IframeIdle

\* handle(), up to the call of the route handler.
Handle ==
    /\ hPc = "start"
    /\ IF hPathname = Undefined
       THEN \* pathname.startsWith throws a TypeError inside the try block
            /\ hError' = "TypeError"
            /\ hRes' = serveError(hRes, 500)
            /\ hPc' = "settled"
            /\ hPromise' = "resolved"
            /\ UNCHANGED <<hHandlers, staticVars, extVars, rootVars>>
       ELSE LET route == Route(hPathname)
            IN  /\ hHandlers' = Append(hHandlers, route)
                /\ hError' = hError
                /\ IF route = "serveError"
                   THEN /\ hRes' = serveError(hRes, 404)
                        /\ hPc' = "settled"
                        /\ hPromise' = "resolved"
                   ELSE /\ hRes' = hRes
                        /\ hPc' = IF route = "_handleCallback" THEN "readFile" ELSE "handler"
                        /\ hPromise' = hPromise
                /\ IF route = "_handleStatic"
                   THEN /\ sPathname' = hPathname
                        /\ sPc' = "start"
                        /\ UNCHANGED <<sFilePath, sCacheControl, sRes, sFsOps, sIsBuilt, sIfNoneMatch, sStat>>
                   ELSE UNCHANGED staticVars
                /\ IF route = "_handleRoot"
                   THEN /\ rUrl' = Url(hPathname, <<>>)
                        /\ rTemplate' = <<"<script>", "{{K}}", "</script>">>
                        /\ rPc' = "start"
                        /\ UNCHANGED <<rTokenType, rCookie, rValue, rRes, rLog>>
                   ELSE UNCHANGED rootVars
                /\ IF route = "_handleWebExtensionResource"
                   THEN /\ ePathname' = hPathname
                        /\ eTemplate' \in ExtTemplates
                        /\ ePc' = "start"
                        /\ UNCHANGED <<eUri, eRes, eOutbound, eReqHeaders, eHost, eContext, eUpBody, eBuffer, eSent>>
                   ELSE UNCHANGED extVars
    /\ UNCHANGED <<hPathname, notHandle>>

\* _handleCallback after promises.readFile: the page with its
\* Content-Security-Policy, or the read fails and the promise is rejected.
HandleCallback ==
    /\ hPc = "readFile"
    /\ \E readable \in BOOLEAN :
        IF readable
        THEN /\ hRes' = [status |-> 200,
                         headers |-> {<<"Content-Type", "text/html">>,
                                      <<"Content-Security-Policy", "csp">>},
                         ended |-> TRUE]
             /\ hPromise' = "resolved"
             /\ hError' = hError
        ELSE /\ hError' = "readFile"
             /\ hPromise' = "rejected"
             /\ hRes' = hRes
    /\ hPc' = "settled"
    /\ UNCHANGED <<hPathname, hHandlers, staticVars, extVars, rootVars, notHandle>>

\* Where the handler the request was given to is.
HandlerPc ==
    CASE hHandlers = <<>> -> "idle"
      [] hHandlers # <<>> /\ hHandlers[1] = "_handleStatic" -> sPc
      [] hHandlers # <<>> /\ hHandlers[1] = "_handleRoot" -> rPc
      [] hHandlers # <<>> /\ hHandlers[1] = "_handleWebExtensionResource" -> ePc
      [] OTHER -> "idle"

\* The handler's promise settles, and the promise of handle() with it:
\* serveFile returns once the read stream is piped.
HandlerSettles ==
    /\ hPc = "handler"
    /\ HandlerPc \in {"done", "streaming", "failed", "rejected"}
    /\ hPromise' = IF HandlerPc = "rejected" THEN "rejected" ELSE "resolved"
    /\ hPc' = "settled"
    /\ UNCHANGED <<hPathname, hHandlers, hError, hRes, staticVars, extVars, rootVars, notHandle>>

HandleNext ==
    \/ Handle
    \/ HandleCallback
    \/ HandlerSettles
    \/ StaticNext
    \/ ExtNext
    \/ HandleRoot
    \/ RootTemplateRead

SpecHandle == HandleInit /\ [][HandleNext]_vars

\* The status written to the request's response, 0 if none was.
ResponseStatus ==
    CASE hHandlers = <<>> -> hRes.status
      [] hHandlers # <<>> /\ hHandlers[1] = "_handleStatic" -> sRes.status
      [] hHandlers # <<>> /\ hHandlers[1] = "_handleRoot" -> rRes.status
      [] hHandlers # <<>> /\ hHandlers[1] = "_handleWebExtensionResource" -> eRes.status
      [] OTHER -> hRes.status

\* An error was raised that the handler did not turn into a response itself.
ErrorRaised == hError # "none" \/ sPc = "rejected" \/ ePc = "rejected"

\* C11: every error raised while a request is handled, in any route handler
\* and asynchronous I/O failures included, is caught and answered with 500:
\* the promise of handle() is never rejected, and once it has settled the
\* request has a response, which is 500 if an error was raised.
C11_ErrorsAnswered500 ==
    /\ hPromise # "rejected"
    /\ hPc = "settled" => ResponseStatus # 0
    /\ (hPc = "settled" /\ ErrorRaised) => ResponseStatus = 500

\* The pathname is the route followed by "/" and anything.
IsUnder(pathname, route) ==
    /\ Len(pathname) >= Len(route) + 1
    /\ SubSeq(pathname, 1, Len(route) + 1) = route \o <<"/">>

C12_MalformedPath400 ==
    /\ (sPc \notin {"idle", "start"} /\ DecodeThrows(sPathname))
            => (sRes.status = 400 /\ sRes.ended)
    /\ (ePc \notin {"idle", "start"} /\ eTemplate # NoUri /\ DecodeThrows(ePathname))
            => (eRes.status = 400 /\ eRes.ended)

\* C13: if the workbench template file cannot be read, the root-page
\* handler answers 404 and sends no partial page: no HTML body, no
\* Content-Security-Policy header and no Set-Cookie header.
C13_TemplateUnreadable404 ==
    \A i \in 1..Len(rLog) :
        rLog[i].res.templateRead = "failed" =>
            /\ rLog[i].res.status = 404
            /\ rLog[i].res.ended
            /\ rLog[i].res.contentType = "text/plain"
            /\ rLog[i].res.body = <<"Not found">>
            /\ ~rLog[i].res.hasCsp
            /\ rLog[i].res.scriptHashes = <<>>
            /\ rLog[i].res.setCookie = NoCookie
            /\ rLog[i].res.location = NoUrl

\* A token being configured, the template with an inline script cannot be
\* read on the reload of a page that was rendered before.
C13_Witness ==
    /\ rTokenType = "Mandatory"
    /\ rTemplate = <<"<script>", "{{K}}", "</script>">>
    /\ Len(rLog) = 2
    /\ rLog[1].res.status = 200
    /\ rLog[1].res.setCookie # NoCookie
    /\ rLog[2].res.templateRead = "failed"
    /\ rLog[2].res.status = 404

(***************************************************************************)
(* serveFile on its own: called by the static route, or by another call    *)
(* site with any CacheControl.                                             *)
(***************************************************************************)
CacheControls == {"NO_CACHING", "ETAG", "NO_EXPIRY"}

ServeFileInit ==
    /\ \/ /\ sPathname \in {staticRoute \o <<"/", "f">>, staticRoute \o <<"/", "r", "/", "f">>}
          /\ sPc = "start"
          /\ sFilePath = Undefined
          /\ sCacheControl = "none"
          /\ sFsOps = <<>>
       \/ \* serveFile(filePath, cacheControl, ...) at its first await
          /\ sPathname = <<>>
          /\ sPc = "stat"
          /\ sFilePath = APP_ROOT \o <<"/", "f">>
          /\ sCacheControl \in CacheControls
          /\ sFsOps = <<[op |-> "stat", path |-> sFilePath]>>
    /\ sRes = NoResponse
    /\ sIsBuilt \in BOOLEAN
    /\ sIfNoneMatch = Undefined
    /\ sStat = NoStat
    /\ PathIdle
    /\ ExtIdle
    /\ RootIdle
    /\ LoginIdle
    /\ HandleIdle
    /\ JsonIdle
    /\ UpgradeIdle
    /\ TlsIdle
    /\ CallbackIdle
    /\ KeyIdle
    /\ SecretIdle
    /\ WebglIdle
    /\ IframeIdle

SpecServeFile == ServeFileInit /\ [][StaticNext]_vars

HeaderNames(res) == {h[1] : h \in res.headers}
Opened == \E i \in 1..Len(sFsOps) : sFsOps[i].op = "createReadStream"

\* C14: serveFile's answer is a function of the directive, the file's stat
\* and If-None-Match.  With ETAG the validator is W/"ino-size-mtime": 304
\* with no headers, no body and the file not opened exactly when
\* If-None-Match equals it, otherwise 200 with an Etag header and no
\* Cache-Control.  With NO_EXPIRY, 200 with Cache-Control 'public,
\* max-age=31536000'; with NO_CACHING, 200 with Cache-Control 'no-store'.
\* A file that cannot be stat'ed yields 404.  The static route passes
\* NO_EXPIRY when the server is built and ETAG otherwise.
C14_CacheControl ==
    /\ (sPathname # <<>> /\ sCacheControl # "none")
            => sCacheControl = (IF sIsBuilt THEN "NO_EXPIRY" ELSE "ETAG")
    /\ sStat.outcome \notin {"none", "ok"} =>
            /\ sRes = [status |-> 404, headers |-> {<<"Content-Type", "text/plain">>}, ended |-> TRUE]
            /\ ~Opened
    /\ sStat.outcome = "ok" =>
        LET validator == <<"W/", "\"", sStat.ino, "-", sStat.size, "-", sStat.mtime, "\"">>
        IN  IF sCacheControl = "ETAG" /\ sIfNoneMatch = validator
            THEN sRes = [status |-> 304, headers |-> {}, ended |-> TRUE] /\ ~Opened
            ELSE /\ sRes.status = 200
                 /\ Opened
                 /\ "Content-Type" \in HeaderNames(sRes)
                 /\ sCacheControl = "ETAG" =>
                        (<<"Etag", validator>> \in sRes.headers /\ HeaderNames(sRes) = {"Content-Type", "Etag"})
                 /\ sCacheControl = "NO_EXPIRY" =>
                        sRes.headers \ {<<"Content-Type", "mime">>} = {<<"Cache-Control", "public, max-age=31536000">>}
                 /\ sCacheControl = "NO_CACHING" =>
                        sRes.headers \ {<<"Content-Type", "mime">>} = {<<"Cache-Control", "no-store">>}

\* A development build's static file whose validator the client holds: 304,
\* and the file is not opened.
C14_Witness ==
    /\ sPathname = staticRoute \o <<"/", "f">>
    /\ ~sIsBuilt
    /\ sCacheControl = "ETAG"
    /\ sStat = [outcome |-> "ok", ino |-> "7", size |-> "2", mtime |-> "3"]
    /\ sIfNoneMatch = <<"W/", "\"", "7", "-", "2", "-", "3", "\"">>
    /\ sRes.status = 304
    /\ sFsOps = <<[op |-> "stat", path |-> APP_ROOT \o <<"/", "f">>]>>

\* C15: every Set-Cookie the root handler emits for the connection token,
\* on the redirect and on the page, has the fixed cookie name, SameSite=Lax
\* and Max-Age 604800 (7 days); every 200 page re-issues the cookie with the
\* server's token value when a token is configured, and sets no cookie when
\* none is.
C15_TokenCookie ==
    \A i \in 1..Len(rLog) :
        LET res == rLog[i].res
        IN  /\ res.setCookie # NoCookie =>
                /\ res.setCookie.name = "vscode-tkn"
                /\ res.setCookie.sameSite = "lax"
                /\ res.setCookie.maxAge = 604800
                /\ res.status \in {200, 302}
            /\ res.status = 302 =>
                /\ res.setCookie # NoCookie
                /\ <<res.setCookie.value>> = ValuesOf(rLog[i].url.pairs, connectionTokenQueryName)
            /\ res.status = 200 =>
                IF rTokenType = "None"
                THEN res.setCookie = NoCookie
                ELSE res.setCookie # NoCookie /\ res.setCookie.value = TokenValue

\* A client that holds the cookie requests the page: the cookie is issued
\* again for another week.
C15_Witness ==
    /\ rTokenType = "Mandatory"
    /\ Len(rLog) = 1
    /\ rLog[1].url = Url(basePath, <<<<"k", "x">>>>)
    /\ rLog[1].cookie = TokenValue
    /\ rLog[1].res.status = 200
    /\ rLog[1].res.setCookie = [name |-> "vscode-tkn", value |-> TokenValue, sameSite |-> "lax", maxAge |-> 604800]

(***************************************************************************)
(* The extension resource proxy on allow-listed requests: the headers it   *)
(* passes on in both directions, the relay of an upstream error, and the   *)
(* body.                                                                   *)
(***************************************************************************)

\* req.headers: Node gives the names in lower case; a value is a string
\* (possibly empty) or an array.
ClientHeaderNames == {"x-client-name", "cookie"}
ClientHeaderValues == {Str("n"), Str(""), Arr(<<"m", "n">>)}
ClientHeaderSets == UNION {[D -> ClientHeaderValues] : D \in SUBSET ClientHeaderNames}

\* context.res.headers of the resource host.
UpstreamHeaderNames == {"Cache-Control", "cache-control", "content-type", "set-cookie"}
UpstreamHeaderValues == {Str("p"), Str("")}
UpstreamHeaderSets == UNION {[D -> UpstreamHeaderValues] : D \in SUBSET UpstreamHeaderNames}

\* The answers of the resource host: 200 with any headers and a body of up
\* to two chunks, or another status (or none) with or without a text.
ResourceHost ==
    {Context(200, headers, Null, body, readable) :
        headers \in UpstreamHeaderSets,
        body \in {<<>>, <<"c1">>, <<"c1", "c2">>},
        readable \in BOOLEAN}
    \cup
    {Context(statusCode, <<>>, text, <<>>, TRUE) :
        statusCode \in {0, 204, 404, 503},
        text \in {Throws, Null, Text(""), Text("t")}}

ProxyInit ==
    /\ eTemplate \in {NoUri, Uri("https", <<"a", ".", "b">>, <<"/">>)}
    /\ ePathname = webExtensionRoute \o <<"/", "b", ".", "b", "/", "a">>
    /\ ePc = "start"
    /\ eUri = NoUri
    /\ eRes = NoResponse
    /\ eOutbound = <<>>
    /\ eReqHeaders \in ClientHeaderSets
    /\ eHost = ResourceHost
    /\ eContext = NoContext
    /\ eUpBody = <<>>
    /\ eBuffer = <<>>
    /\ eSent = <<>>
    /\ PathIdle
    /\ StaticIdle
    /\ RootIdle
    /\ LoginIdle
    /\ HandleIdle
    /\ JsonIdle
    /\ UpgradeIdle
    /\ TlsIdle
    /\ CallbackIdle
    /\ KeyIdle
    /\ SecretIdle
    /\ WebglIdle
    /\ IframeIdle

SpecProxy == ProxyInit /\ [][ExtNext]_vars

\* The names a header may pass under: as written, or in lower case.
ForwardedRequestNames ==
    {<<"X-Client-Name", "x-client-name">>, <<"X-Client-Version", "x-client-version">>,
     <<"X-Machine-Id", "x-machine-id">>, <<"X-Client-Commit", "x-client-commit">>}
RelayedResponseNames ==
    {<<"Cache-Control", "cache-control">>, <<"Content-Type", "content-type">>}

\* C16: on an allow-listed extension-resource request the upstream request
\* carries no client header other than X-Client-Name, X-Client-Version,
\* X-Machine-Id and X-Client-Commit, each looked up by its exact name and
\* then at most once by its lower-case name; the response to the client
\* carries no upstream header other than Cache-Control and Content-Type.
C16_HeaderAllowLists ==
    /\ \A i \in 1..Len(eOutbound) :
        LET o == eOutbound[i]
        IN  /\ \A h \in DOMAIN o.headers :
                /\ \E n \in ForwardedRequestNames : h \in {n[1], n[2]}
                /\ h \in DOMAIN eReqHeaders
                /\ o.headers[h] = eReqHeaders[h].items[1]
            /\ \A n \in ForwardedRequestNames :
                /\ Cardinality({k \in 1..Len(o.lookups) : o.lookups[k] = n[1]}) = 1
                /\ Cardinality({k \in 1..Len(o.lookups) : o.lookups[k] = n[2]}) <= 1
                /\ \A k \in 1..Len(o.lookups) :
                        o.lookups[k] = n[2] => (k > 1 /\ o.lookups[k - 1] = n[1])
            /\ \A k \in 1..Len(o.lookups) :
                \E n \in ForwardedRequestNames : o.lookups[k] \in {n[1], n[2]}
    /\ eRes.status = 200 =>
        \A pair \in eRes.headers :
            /\ \E n \in RelayedResponseNames : pair[1] \in {n[1], n[2]}
            /\ pair[1] \in DOMAIN eContext.headers
            /\ pair[2] = eContext.headers[pair[1]]

\* The client sends x-client-name twice and a cookie; the host answers with
\* an empty Cache-Control, a cache-control and a set-cookie: only the first
\* x-client-name goes up, only cache-control comes back.
C16_Witness ==
    /\ eReqHeaders = ("x-client-name" :> Arr(<<"m", "n">>)) @@ ("cookie" :> Str("n"))
    /\ Len(eOutbound) = 1
    /\ eOutbound[1].headers = ("x-client-name" :> "m")
    /\ eOutbound[1].lookups =
        <<"X-Client-Name", "x-client-name", "X-Client-Version", "x-client-version",
          "X-Machine-Id", "x-machine-id", "X-Client-Commit", "x-client-commit">>
    /\ eContext.headers =
        ("Cache-Control" :> Str("")) @@ ("cache-control" :> Str("p")) @@ ("set-cookie" :> Str("p"))
    /\ eRes.status = 200
    /\ eRes.headers = {<<"cache-control", Str("p")>>}

\* C17: when the resource host answers an allow-listed request with a
\* status other than 200 (no status counting as 500), the proxy relays that
\* status with the upstream's text when it could be read (and is not empty)
\* and with 'Request failed with status <status>' otherwise, and sends
\* neither the headers nor the body of the 200 case; without a configured
\* gallery resource template the answer is 500 and no outbound call is made.
C17_UpstreamStatusRelay ==
    /\ (ePc = "done" /\ eOutbound # <<>> /\ eContext.statusCode # 200) =>
        LET status == IF eContext.statusCode = 0 THEN 500 ELSE eContext.statusCode
            read == eContext.text.outcome = "text" /\ eContext.text.text # ""
        IN  /\ eRes = [status |-> status, headers |-> {}, ended |-> TRUE]
            /\ eSent = <<[kind |-> IF read THEN "text" ELSE "Request failed with status",
                          text |-> IF read THEN eContext.text.text ELSE "",
                          status |-> IF read THEN 0 ELSE status,
                          chunks |-> <<>>]>>
            /\ eBuffer = <<>>
    /\ (ePc \notin {"idle", "start"} /\ eTemplate = NoUri) =>
        /\ eRes = [status |-> 500, headers |-> {}, ended |-> TRUE]
        /\ eOutbound = <<>>
        /\ ePc = "done"

\* The host answers 503 with the text "t": the client gets 503 and "t".
C17_Witness ==
    /\ ePc = "done"
    /\ Len(eOutbound) = 1
    /\ eContext.statusCode = 503
    /\ eContext.text = Text("t")
    /\ eRes.status = 503
    /\ eSent = <<TextBody("t")>>

\* C18: on an allow-listed request answered 200 by the upstream the proxy
\* streams the body: every chunk received from the upstream has been
\* forwarded to the client, so the proxy never holds the whole body while
\* the client has none of it.
C18_BodyStreamed ==
    (ePc = "body" /\ eRes.status = 200) =>
        /\ \A k \in 1..Len(eBuffer) :
            \E j \in 1..Len(eSent) : \E c \in 1..Len(eSent[j].chunks) : eSent[j].chunks[c] = eBuffer[k]
        /\ (eUpBody = <<>> /\ eBuffer # <<>>) => eSent # <<>>

(***************************************************************************)
(* asJSON: the JSON values the root page embeds.  A string is a sequence   *)
(* of characters, with "&quot;" standing for an occurrence of those six    *)
(* characters in the text.                                                 *)
(***************************************************************************)

\* JSON.stringify of a string: quoted, with " and \ escaped by a backslash.
RECURSIVE EscapeJson(_)
EscapeJson(str) ==
    IF str = <<>> THEN <<>>
    ELSE (IF Head(str) \in {"\"", "\\"} THEN <<"\\", Head(str)>> ELSE <<Head(str)>>)
         \o EscapeJson(Tail(str))
Quote(str) == <<"\"">> \o EscapeJson(str) \o <<"\"">>

\* JSON.stringify(value)
JSONstringify(value) ==
    IF value.kind = "string" THEN Quote(value.str)
    ELSE <<"{">> \o Quote(value.key) \o <<":">> \o Quote(value.str) \o <<"}">>

\* text.replace(/"/g, '&quot;')
RECURSIVE ReplaceQuotes(_)
ReplaceQuotes(text) ==
    IF text = <<>> THEN <<>>
    ELSE <<IF Head(text) = "\"" THEN "&quot;" ELSE Head(text)>> \o ReplaceQuotes(Tail(text))

\* function asJSON(value) { return JSON.stringify(value).replace(/"/g, '&quot;'); }
asJSON(value) == ReplaceQuotes(JSONstringify(value))

MaxJsonLen == 2
JsonChars == {"a", "\"", "\\", "&quot;"}
JsonValues ==
    {JsonString(str) : str \in Strs(JsonChars, MaxJsonLen)}
    \cup {JsonObject(key, str) : key \in Strs(JsonChars, 1), str \in Strs(JsonChars, MaxJsonLen)}

JsonInit ==
    /\ jsonValue \in JsonValues
    /\ jsonEmbedded = Undefined
    /\ PathIdle
    /\ StaticIdle
    /\ ExtIdle
    /\ RootIdle
    /\ LoginIdle
    /\ HandleIdle
    /\ UpgradeIdle
    /\ TlsIdle
    /\ CallbackIdle
    /\ KeyIdle
    /\ SecretIdle
    /\ WebglIdle
    /\ IframeIdle

\* values[...] = asJSON(...)
CallAsJSON ==
    /\ jsonEmbedded = Undefined
    /\ jsonEmbedded' = asJSON(jsonValue)
    /\ UNCHANGED <<jsonValue, notJson>>

JsonNext == CallAsJSON

SpecJson == JsonInit /\ [][JsonNext]_vars

\* The text with every "&quot;" turned back into a double quote.
Unescape(text) == [i \in 1..Len(text) |-> IF text[i] = "&quot;" THEN "\"" ELSE text[i]]

\* C20: every JSON value the root page embeds has all of its double quotes
\* HTML-escaped: the embedded string holds no double quote, each one being
\* replaced by &quot;, and unescaping &quot; gives back JSON.stringify of
\* the value.
C20_QuotesEscaped ==
    jsonEmbedded # Undefined =>
        /\ \A i \in 1..Len(jsonEmbedded) : jsonEmbedded[i] # "\""
        /\ Len(jsonEmbedded) = Len(JSONstringify(jsonValue))
        /\ \A i \in 1..Len(jsonEmbedded) :
            JSONstringify(jsonValue)[i] = "\"" => jsonEmbedded[i] = "&quot;"
        /\ Unescape(jsonEmbedded) = JSONstringify(jsonValue)

(***************************************************************************)
(* Gateway: a WebSocket upgrade request forwarded to the backend.  The     *)
(* gateway opens a second connection to the backend, replays the           *)
(* handshake and splices the two sockets on 101; an unreachable backend is *)
(* answered 502 and the client connection is closed; a client that closes  *)
(* tears the paired backend connection down.                               *)
(***************************************************************************)

MaxCycles == 6

UpgradeInit ==
    /\ UpgradeIdle
    /\ PathIdle
    /\ StaticIdle
    /\ ExtIdle
    /\ RootIdle
    /\ LoginIdle
    /\ JsonIdle
    /\ HandleIdle
    /\ TlsIdle
    /\ CallbackIdle
    /\ KeyIdle
    /\ SecretIdle
    /\ WebglIdle
    /\ IframeIdle

\* The sockets of one request and the process's open handles.
Sockets(client, backend, answer, handles) ==
    [client |-> client, backend |-> backend, answer |-> answer, handles |-> handles]

\* The backend is unreachable but the socket opened for it is kept.
BackendUnreachableAnswerKeepsSocket(handles) == Sockets("closed", "connecting", "502", handles - 1)

\* The backend is unreachable: answer 502, close the client connection and
\* release the socket opened for the backend.
BackendUnreachableAnswer(handles) == Sockets("closed", "closed", "502", handles - 2)

\* The client closes: the paired backend connection, if any, is torn down with it.
ClientClosed(backend, answer, handles) ==
    IF backend \in {"connecting", "open"}
    THEN Sockets("closed", "closed", answer, handles - 2)
    ELSE Sockets("closed", backend, answer, handles - 1)

\* An Upgrade: websocket request arrives on a new client socket.
UpgradeRequest ==
    /\ wPc = "idle"
    /\ wCycles < MaxCycles
    /\ wReachable' \in BOOLEAN
    /\ wPc' = "accepted"
    /\ wClient' = "open"
    /\ wBackend' = "none"
    /\ wAnswer' = "none"
    /\ wHangup' = FALSE
    /\ wHandles' = wHandles + 1
    /\ UNCHANGED <<wCycles, notUpgrade>>

\* The gateway opens the second connection, to the backend.
OpenBackend ==
    /\ wPc = "accepted"
    /\ wPc' = "connecting"
    /\ wBackend' = "connecting"
    /\ wHandles' = wHandles + 1
    /\ UNCHANGED <<wReachable, wClient, wAnswer, wHangup, wCycles, notUpgrade>>

\* The connection attempt fails.
BackendUnreachable ==
    /\ wPc = "connecting"
    /\ ~wReachable
    /\ LET s == BackendUnreachableAnswer(wHandles) IN
        /\ wClient' = s.client
        /\ wBackend' = s.backend
        /\ wAnswer' = s.answer
        /\ wHandles' = s.handles
    /\ wPc' = "done"
    /\ UNCHANGED <<wReachable, wHangup, wCycles, notUpgrade>>

\* The backend answers the replayed handshake with 101: the sockets are spliced.
BackendSwitchesProtocols ==
    /\ wPc = "connecting"
    /\ wReachable
    /\ wPc' = "spliced"
    /\ wBackend' = "open"
    /\ wAnswer' = "101"
    /\ UNCHANGED <<wReachable, wClient, wHangup, wCycles, wHandles, notUpgrade>>

\* The client closes its connection, at any point of the request.
ClientCloses ==
    /\ wPc \in {"accepted", "connecting", "spliced"}
    /\ LET s == ClientClosed(wBackend, wAnswer, wHandles) IN
        /\ wClient' = s.client
        /\ wBackend' = s.backend
        /\ wAnswer' = s.answer
        /\ wHandles' = s.handles
    /\ wHangup' = TRUE
    /\ wPc' = "done"
    /\ UNCHANGED <<wReachable, wCycles, notUpgrade>>

\* The backend closes a spliced connection: the client side is closed too.
BackendCloses ==
    /\ wPc = "spliced"
    /\ wPc' = "done"
    /\ wClient' = "closed"
    /\ wBackend' = "closed"
    /\ wHandles' = wHandles - 2
    /\ UNCHANGED <<wReachable, wAnswer, wHangup, wCycles, notUpgrade>>

\* The request is over; the next one may arrive.
UpgradeOver ==
    /\ wPc = "done"
    /\ wPc' = "idle"
    /\ wCycles' = wCycles + 1
    /\ UNCHANGED <<wReachable, wClient, wBackend, wAnswer, wHangup, wHandles, notUpgrade>>

UpgradeNext ==
    \/ UpgradeRequest
    \/ OpenBackend
    \/ BackendUnreachable
    \/ BackendSwitchesProtocols
    \/ ClientCloses
    \/ BackendCloses
    \/ UpgradeOver

\* A started connection attempt settles and a started request is carried on:
\* the event loop runs every callback that is ready.
SpecUpgrade ==
    /\ UpgradeInit
    /\ [][UpgradeNext]_vars
    /\ WF_vars(OpenBackend)
    /\ WF_vars(BackendUnreachable)

\* C21: a WebSocket upgrade request forwarded to an unreachable backend always
\* ends: with the client socket closed, after a 502 answer unless the client
\* hung up first, and with no socket left open for the request, so that the
\* number of open handles is zero again after every connect/fail cycle.
C21_UnreachableBackendClosed ==
    /\ [](wPc = "done" /\ ~wReachable =>
            /\ wClient = "closed"
            /\ wBackend \in {"none", "closed"}
            /\ (~wHangup => wAnswer = "502")
            /\ wHandles = 0)
    /\ [](wPc = "idle" => wHandles = 0)
    /\ ((wPc = "accepted" /\ ~wReachable) ~> (wPc = "done" /\ wClient = "closed"))

C21_Witness ==
    /\ wPc = "done"
    /\ ~wReachable
    /\ ~wHangup
    /\ wAnswer = "502"
    /\ wCycles >= 1

(***************************************************************************)
(* TLS socket proxy: each accepted TLS session is exposed to an internal   *)
(* consumer as a plain duplex channel.  Per connection:                    *)
(* Accepted -> Established -> Closing -> Closed.                           *)
(***************************************************************************)

MaxConns == 2
HandshakeTimeout == 2

Connection(state, public, internal, age, cause) ==
    [state |-> state, public |-> public, internal |-> internal, age |-> age, cause |-> cause]

\* A new connection: the public socket is open, the internal one not yet.
Accepted == Connection("Accepted", "open", "none", 0, "none")

TlsInit ==
    /\ tConns = <<>>
    /\ PathIdle
    /\ StaticIdle
    /\ ExtIdle
    /\ RootIdle
    /\ LoginIdle
    /\ JsonIdle
    /\ UpgradeIdle
    /\ HandleIdle
    /\ CallbackIdle
    /\ KeyIdle
    /\ SecretIdle
    /\ WebglIdle
    /\ IframeIdle

\* Cleanup that closes the public socket only.
CleanedUpPublicOnly(conn) == [conn EXCEPT !.state = "Closed", !.public = "closed"]

\* Cleanup on the transition to Closed: both sockets are closed.
CleanedUp(conn) == [conn EXCEPT !.state = "Closed", !.public = "closed", !.internal = "closed"]

\* One side closed or failed: the connection is Closing.
SideDown(conn, side, cause) ==
    IF side = "public"
    THEN [conn EXCEPT !.state = "Closing", !.public = "closed", !.cause = cause]
    ELSE [conn EXCEPT !.state = "Closing", !.internal = "closed", !.cause = cause]

\* The public listener accepts a TLS connection.
TlsAccept ==
    /\ Len(tConns) < MaxConns
    /\ tConns' = Append(tConns, Accepted)
    /\ UNCHANGED notTls

\* Time passes for a connection whose handshake is not done.
TlsTick(k) ==
    /\ tConns[k].state = "Accepted"
    /\ tConns[k].age < HandshakeTimeout
    /\ tConns' = [tConns EXCEPT ![k].age = @ + 1]
    /\ UNCHANGED notTls

\* The handshake completes in time: the internal channel is opened.
TlsEstablished(k) ==
    /\ tConns[k].state = "Accepted"
    /\ tConns[k].age < HandshakeTimeout
    /\ tConns' = [tConns EXCEPT ![k].state = "Established", ![k].internal = "open"]
    /\ UNCHANGED notTls

\* The handshake timer fires: the connection is forcibly closed.
TlsHandshakeTimeout(k) ==
    /\ tConns[k].state = "Accepted"
    /\ tConns[k].age >= HandshakeTimeout
    /\ tConns' = [tConns EXCEPT ![k].state = "Closing", ![k].cause = "timeout"]
    /\ UNCHANGED notTls

\* Either side closes or errors.
TlsSideDown(k, side, cause) ==
    /\ tConns[k].state \in {"Accepted", "Established"}
    /\ side = "internal" => tConns[k].internal = "open"
    /\ tConns' = [tConns EXCEPT ![k] = SideDown(@, side, cause)]
    /\ UNCHANGED notTls

\* Cleanup of a closing connection.
TlsCleanup(k) ==
    /\ tConns[k].state = "Closing"
    /\ tConns' = [tConns EXCEPT ![k] = CleanedUp(@)]
    /\ UNCHANGED notTls

TlsNext ==
    \/ TlsAccept
    \/ \E k \in 1..Len(tConns) :
        \/ TlsTick(k)
        \/ TlsEstablished(k)
        \/ TlsHandshakeTimeout(k)
        \/ \E side \in {"public", "internal"}, cause \in {"close", "error"} : TlsSideDown(k, side, cause)
        \/ TlsCleanup(k)

\* The event loop runs the cleanup of a closing connection and the handshake
\* timer that has expired.
SpecTls ==
    /\ TlsInit
    /\ [][TlsNext]_vars
    /\ \A k \in 1..MaxConns : WF_vars(k <= Len(tConns) /\ TlsCleanup(k))
    /\ \A k \in 1..MaxConns : WF_vars(k <= Len(tConns) /\ TlsHandshakeTimeout(k))

TlsRank(state) ==
    CASE state = "Accepted" -> 1
      [] state = "Established" -> 2
      [] state = "Closing" -> 3
      [] state = "Closed" -> 4

\* C22: each TLS-proxied connection moves only along
\* Accepted -> Established -> Closing -> Closed (never backwards, and to
\* Closed only from Closing); it is in Closing or Closed as soon as a side has
\* closed or failed; every connection in Closing eventually reaches Closed; in
\* Closed both sockets are closed; and a connection does not stay in Accepted
\* beyond the handshake timeout: it is then forcibly closed.
C22_ConnectionStateMachine ==
    /\ [][\A k \in 1..Len(tConns) :
            tConns'[k].state # tConns[k].state =>
                /\ TlsRank(tConns'[k].state) > TlsRank(tConns[k].state)
                /\ tConns'[k].state = "Closed" => tConns[k].state = "Closing"]_vars
    /\ [](\A k \in 1..Len(tConns) :
            /\ "closed" \in {tConns[k].public, tConns[k].internal} => tConns[k].state \in {"Closing", "Closed"}
            /\ tConns[k].state = "Closed" => tConns[k].public = "closed" /\ tConns[k].internal = "closed"
            /\ tConns[k].state = "Accepted" => tConns[k].age <= HandshakeTimeout)
    /\ \A k \in 1..MaxConns :
        /\ (k <= Len(tConns) /\ tConns[k].state = "Closing") ~> (k <= Len(tConns) /\ tConns[k].state = "Closed")
        /\ (k <= Len(tConns) /\ tConns[k].state = "Accepted" /\ tConns[k].age = HandshakeTimeout)
            ~> (k <= Len(tConns) /\ tConns[k].state = "Closed" /\ tConns[k].public = "closed")

C22_Witness ==
    /\ Len(tConns) = 2
    /\ tConns[1].state = "Closed" /\ tConns[1].cause = "timeout" /\ tConns[1].internal = "closed"
    /\ tConns[2].state = "Closed" /\ tConns[2].cause = "error" /\ tConns[2].age = 0

(***************************************************************************)
(* LocalStorageURLCallbackProvider: create(), the storage listener, the    *)
(* deferred check timer and checkCallbacks.  Time is in milliseconds.      *)
(***************************************************************************)

MaxIds == 3
MaxTime == 2400
Elapses == {400, 600}
CheckInterval == 1000

\* checkCallbacksTimeout === undefined
NoTimeout == <<>>

Range(seq) == {seq[i] : i \in 1..Len(seq)}
Without(seq, x) == SelectSeq(seq, LAMBDA y : y # x)

CallbackInit ==
    /\ CallbackIdle
    /\ PathIdle
    /\ StaticIdle
    /\ ExtIdle
    /\ RootIdle
    /\ LoginIdle
    /\ JsonIdle
    /\ UpgradeIdle
    /\ TlsIdle
    /\ HandleIdle
    /\ KeyIdle
    /\ SecretIdle
    /\ WebglIdle
    /\ IframeIdle

\* The provider's state that create() and checkCallbacks work on.
Provider(pending, listening, storage, requestId, registered, fired) ==
    [pending |-> pending, listening |-> listening, storage |-> storage,
     requestId |-> requestId, registered |-> registered, fired |-> fired]

\* create(options): a new id; unless the options are the github-authentication
\* dummy, its localStorage item is removed, the id is added to
\* pendingCallbacks and the storage listener is registered.
create(p, dummy) ==
    LET id == p.requestId + 1 IN
    IF dummy THEN [p EXCEPT !.requestId = id]
    ELSE [p EXCEPT !.requestId = id,
                   !.storage = @ \ {id},
                   !.pending = IF id \in Range(@) THEN @ ELSE Append(@, id),
                   !.registered = @ \cup {id},
                   !.listening = TRUE]

\* The for-of loop of checkCallbacks from position i of this.pendingCallbacks
\* (a Set iterates in insertion order and visits what is added meanwhile).
\* copy is the local variable pendingCallbacks (NoCopy while undefined);
\* creators are the ids whose onCallback listener calls create().
NoCopy == [made |-> FALSE, ids |-> <<>>]
RECURSIVE CheckLoop(_, _, _, _)
CheckLoop(i, p, copy, creators) ==
    IF i > Len(p.pending) THEN [p |-> p, copy |-> copy]
    ELSE
        LET id == p.pending[i] IN
        IF id \notin p.storage THEN CheckLoop(i + 1, p, copy, creators)
        ELSE
            LET fired == [p EXCEPT !.fired = Append(@, id)]
                after == IF id \in creators /\ fired.requestId < MaxIds
                         THEN create(fired, FALSE) ELSE fired
                copied == IF copy.made THEN copy.ids ELSE after.pending
            IN CheckLoop(i + 1, [after EXCEPT !.storage = @ \ {id}],
                         [made |-> TRUE, ids |-> Without(copied, id)], creators)

\* checkCallbacks(), up to the assignment of lastTimeChecked.
checkCallbacks(p, creators) ==
    LET end == CheckLoop(1, p, NoCopy, creators) IN
    IF ~end.copy.made THEN end.p
    ELSE [end.p EXCEPT !.pending = end.copy.ids,
                       !.listening = IF end.copy.ids = <<>> THEN FALSE ELSE @]

ThisProvider ==
    Provider(pendingCallbacks, cbListening, cbStorage, REQUEST_ID, cbRegistered, cbFired)

SetProvider(p) ==
    /\ pendingCallbacks' = p.pending
    /\ cbListening' = p.listening
    /\ cbStorage' = p.storage
    /\ REQUEST_ID' = p.requestId
    /\ cbRegistered' = p.registered
    /\ cbFired' = p.fired

\* checkCallbacks runs now.
RunCheckCallbacks(creators) ==
    /\ SetProvider(checkCallbacks(ThisProvider, creators))
    /\ lastTimeChecked' = cbNow
    /\ cbChecks' = Append(cbChecks, cbNow)

\* A caller asks for a callback URI.
Create(dummy) ==
    /\ REQUEST_ID < MaxIds
    /\ SetProvider(create(ThisProvider, dummy))
    /\ UNCHANGED <<cbNow, lastTimeChecked, checkCallbacksTimeout, cbChecks, notCallback>>

\* The callback page, in another window, stores the result of a request.
StoreResult(id) ==
    /\ id \in cbRegistered
    /\ id \notin Range(cbFired)
    /\ id \notin cbStorage
    /\ cbStorage' = cbStorage \cup {id}
    /\ UNCHANGED <<cbNow, REQUEST_ID, pendingCallbacks, lastTimeChecked, checkCallbacksTimeout,
                   cbListening, cbRegistered, cbFired, cbChecks, notCallback>>

\* A storage event: onDidChangeLocalStorage().
OnDidChangeLocalStorage(creators) ==
    /\ cbListening
    /\ LET ellapsed == cbNow - lastTimeChecked IN
        IF ellapsed > CheckInterval
        THEN /\ RunCheckCallbacks(creators)
             /\ UNCHANGED checkCallbacksTimeout
        ELSE IF checkCallbacksTimeout = NoTimeout
        THEN /\ checkCallbacksTimeout' = <<cbNow + (CheckInterval - ellapsed)>>
             /\ UNCHANGED <<REQUEST_ID, pendingCallbacks, lastTimeChecked, cbListening,
                            cbStorage, cbRegistered, cbFired, cbChecks>>
        ELSE UNCHANGED <<REQUEST_ID, pendingCallbacks, lastTimeChecked, checkCallbacksTimeout,
                         cbListening, cbStorage, cbRegistered, cbFired, cbChecks>>
    /\ UNCHANGED <<cbNow, notCallback>>

\* The deferred check timer fires, on time or late.
CheckTimerFires(creators) ==
    /\ checkCallbacksTimeout # NoTimeout
    /\ cbNow >= checkCallbacksTimeout[1]
    /\ checkCallbacksTimeout' = NoTimeout
    /\ RunCheckCallbacks(creators)
    /\ UNCHANGED <<cbNow, notCallback>>

\* Time passes.
TimePasses(ms) ==
    /\ cbNow + ms <= MaxTime
    /\ cbNow' = cbNow + ms
    /\ UNCHANGED <<REQUEST_ID, pendingCallbacks, lastTimeChecked, checkCallbacksTimeout,
                   cbListening, cbStorage, cbRegistered, cbFired, cbChecks, notCallback>>

CallbackNext ==
    \/ \E dummy \in BOOLEAN : Create(dummy)
    \/ \E id \in 1..MaxIds : StoreResult(id)
    \/ \E creators \in SUBSET (1..MaxIds) : OnDidChangeLocalStorage(creators)
    \/ \E creators \in SUBSET (1..MaxIds) : CheckTimerFires(creators)
    \/ \E ms \in Elapses : TimePasses(ms)

SpecCallback == CallbackInit /\ [][CallbackNext]_vars

\* C23: checkCallbacks runs at most once per second: two executions of it
\* are never less than 1000 ms apart, whatever the storage events and timer
\* firings (a late timer included), and at most one deferred check timer is
\* pending at any time.
C23_OncePerSecond ==
    /\ \A i \in 1..(Len(cbChecks) - 1) : cbChecks[i + 1] - cbChecks[i] >= CheckInterval
    /\ Len(checkCallbacksTimeout) <= 1

(***************************************************************************)
(* ServerKeyedAESCrypto.getServerKeyPart: the server's key part is fetched *)
(* with up to four attempts and cached.  Several calls may be in flight.   *)
(***************************************************************************)

MaxKeyCalls == 3
KEY_LENGTH == 256
LastAttempt == 3
BackoffUnit == 100

KeyCallers == {"seal", "unseal"}

\* this._serverKey === undefined
NoKey == [cached |-> FALSE, byteLength |-> 0]
Key(byteLength) == [cached |-> TRUE, byteLength |-> byteLength]

\* What one fetch of the auth endpoint can come to: the request fails, the
\* response is not ok, the body cannot be read, or a body of some length.
FetchOutcomes ==
    {[kind |-> "rejected", ok |-> FALSE, byteLength |-> 0],
     [kind |-> "response", ok |-> FALSE, byteLength |-> 32],
     [kind |-> "bodyError", ok |-> TRUE, byteLength |-> 0],
     [kind |-> "response", ok |-> TRUE, byteLength |-> 16],
     [kind |-> "response", ok |-> TRUE, byteLength |-> 32]}

\* The try block succeeds: an ok response whose body is KEY_LENGTH / 8 bytes long.
FetchSucceeds(outcome) ==
    /\ outcome.kind = "response"
    /\ outcome.ok
    /\ outcome.byteLength = KEY_LENGTH \div 8

\* The error the try block throws otherwise.
FetchError(outcome) ==
    IF outcome.kind # "response" THEN outcome.kind
    ELSE IF ~outcome.ok THEN "statusText"
    ELSE "not 256 bit long"

\* A backoff that grows linearly.
BackoffLinear(attempt) == attempt * BackoffUnit

\* setTimeout(resolve, attempt * attempt * 100)
Backoff(attempt) == attempt * attempt * BackoffUnit

NoCall == [pc |-> "idle", attempt |-> 0, lastError |-> "undefined", fetches |-> 0,
           waits |-> <<>>, result |-> NoKey, cachedAtStart |-> FALSE]

KeyInit ==
    /\ serverKey = NoKey
    /\ kCalls = [c \in KeyCallers |-> NoCall]
    /\ kStarted = 0
    /\ PathIdle
    /\ StaticIdle
    /\ ExtIdle
    /\ RootIdle
    /\ LoginIdle
    /\ JsonIdle
    /\ UpgradeIdle
    /\ TlsIdle
    /\ CallbackIdle
    /\ HandleIdle
    /\ SecretIdle
    /\ WebglIdle
    /\ IframeIdle

\* getServerKeyPart() is called: the cached key is returned, or the first
\* fetch is sent.
GetServerKeyPart(c) ==
    /\ kCalls[c].pc \in {"idle", "resolved", "rejected"}
    /\ kStarted < MaxKeyCalls
    /\ kStarted' = kStarted + 1
    /\ kCalls' = [kCalls EXCEPT ![c] =
            IF serverKey.cached
            THEN [NoCall EXCEPT !.pc = "resolved", !.result = serverKey, !.cachedAtStart = TRUE]
            ELSE [NoCall EXCEPT !.pc = "fetch", !.fetches = 1]]
    /\ UNCHANGED <<serverKey, notKey>>

\* The fetch (and the reading of its body) settles.
KeyFetchSettles(c, outcome) ==
    /\ kCalls[c].pc = "fetch"
    /\ IF FetchSucceeds(outcome)
       THEN /\ serverKey' = Key(outcome.byteLength)
            /\ kCalls' = [kCalls EXCEPT ![c].pc = "resolved", ![c].result = Key(outcome.byteLength)]
       ELSE /\ kCalls' = [kCalls EXCEPT ![c].pc = "backoff",
                                        ![c].lastError = FetchError(outcome),
                                        ![c].attempt = @ + 1,
                                        ![c].waits = Append(@, Backoff(kCalls[c].attempt + 1))]
            /\ UNCHANGED serverKey
    /\ UNCHANGED <<kStarted, notKey>>

\* The backoff timer fires: the loop condition is tested again.
KeyBackoffOver(c) ==
    /\ kCalls[c].pc = "backoff"
    /\ kCalls' = [kCalls EXCEPT ![c] =
            IF kCalls[c].attempt <= LastAttempt
            THEN [@ EXCEPT !.pc = "fetch", !.fetches = @ + 1]
            ELSE [@ EXCEPT !.pc = "rejected"]]
    /\ UNCHANGED <<serverKey, kStarted, notKey>>

KeyNext ==
    \E c \in KeyCallers :
        \/ GetServerKeyPart(c)
        \/ \E outcome \in FetchOutcomes : KeyFetchSettles(c, outcome)
        \/ KeyBackoffOver(c)

\* A fetch settles and a timer fires.
SpecKey ==
    /\ KeyInit
    /\ [][KeyNext]_vars
    /\ \A c \in KeyCallers : WF_vars(\E outcome \in FetchOutcomes : KeyFetchSettles(c, outcome))
    /\ \A c \in KeyCallers : WF_vars(KeyBackoffOver(c))

\* C24: getServerKeyPart always terminates; a call makes at most 4 fetch
\* attempts; a non-ok response or a key that is not 32 bytes long is a failed
\* attempt; after the n-th failed attempt it waits n*n*100 ms (100, 400, 900,
\* 1600); after the 4th failure it rejects with the last error; after a
\* successful attempt the key is cached, and a call made then returns it
\* without any fetch.
C24_KeyFetchRetries ==
    /\ [](\A c \in KeyCallers :
            LET call == kCalls[c] IN
            /\ call.fetches <= 4
            /\ call.waits = SubSeq(<<100, 400, 900, 1600>>, 1, call.attempt)
            /\ call.pc = "rejected" =>
                /\ call.fetches = 4
                /\ call.attempt = 4
                /\ call.lastError # "undefined"
            /\ call.pc = "resolved" =>
                /\ call.result.byteLength = 32
                /\ serverKey = call.result
                /\ call.cachedAtStart => call.fetches = 0
            /\ call.pc = "resolved" /\ ~call.cachedAtStart => call.fetches = call.attempt + 1)
    /\ [][\A c \in KeyCallers :
            /\ serverKey.cached /\ kCalls'[c] # kCalls[c] /\ kCalls[c].pc \in {"idle", "resolved", "rejected"}
                => kCalls'[c].pc = "resolved" /\ kCalls'[c].fetches = 0
            /\ kCalls[c].pc = "fetch" /\ kCalls'[c].pc = "backoff"
                => kCalls'[c].attempt = kCalls[c].attempt + 1
            /\ serverKey.cached => serverKey' = serverKey]_vars
    /\ \A c \in KeyCallers :
        (kCalls[c].pc \in {"fetch", "backoff"}) ~> (kCalls[c].pc \in {"resolved", "rejected"})

C24_Witness ==
    /\ kCalls["seal"].pc = "rejected"
    /\ kCalls["seal"].waits = <<100, 400, 900, 1600>>
    /\ kCalls["seal"].lastError = "not 256 bit long"
    /\ kCalls["unseal"].pc = "resolved"
    /\ kCalls["unseal"].cachedAtStart


\* C25: an id registered by create() stays in pendingCallbacks, with the
\* storage listener registered, until checkCallbacks has fired its callback,
\* also when create() is called from inside an onCallback listener while
\* checkCallbacks is iterating; and each id's callback is fired at most once.
C25_PendingUntilFired ==
    /\ \A id \in cbRegistered :
        \/ id \in Range(cbFired)
        \/ id \in Range(pendingCallbacks) /\ cbListening
    /\ \A i, j \in 1..Len(cbFired) : cbFired[i] = cbFired[j] => i = j

(***************************************************************************)
(* LocalStorageSecretStorageProvider: get, set, delete and the save that   *)
(* seals the record and writes it to localStorage.  seal() is              *)
(* asynchronous: several saves can be sealing at once.                     *)
(***************************************************************************)

MaxSaves == 2
SecretKeys == {"k1", "k2"}
SecretValues == {"v", "w"}

\* localStorage.getItem(this._storageKey) === null
NoItem == [sealed |-> FALSE, text |-> {}]

\* JSON.stringify(record): the properties that are present.
StringifyRecord(record) == {<<k, record[k]>> : k \in {x \in DOMAIN record : record[x] # "undefined"}}

\* crypto.seal(data) and crypto.unseal(data)
Seal(text) == [sealed |-> TRUE, text |-> text]
Unseal(item) == item.text

SecretInit ==
    /\ secrets = [k \in SecretKeys |-> "undefined"]
    /\ secretItem = NoItem
    /\ secretSaves = <<>>
    /\ secretWrites = [k \in SecretKeys |-> "undefined"]
    /\ secretGot = [key |-> "", value |-> "undefined"]
    /\ PathIdle
    /\ StaticIdle
    /\ ExtIdle
    /\ RootIdle
    /\ LoginIdle
    /\ JsonIdle
    /\ UpgradeIdle
    /\ TlsIdle
    /\ CallbackIdle
    /\ KeyIdle
    /\ HandleIdle
    /\ WebglIdle
    /\ IframeIdle

\* save() is called: it first awaits this._secretsPromise.
SaveCalled(saves) == Append(saves, [pc |-> "await", text |-> {}])

\* get(key)
SecretGet(key) ==
    /\ secretGot' = [key |-> key, value |-> secrets[key]]
    /\ UNCHANGED <<secrets, secretItem, secretSaves, secretWrites, notSecret>>

\* set(key, value)
SecretSet(key, value) ==
    /\ Len(secretSaves) < MaxSaves
    /\ secrets' = [secrets EXCEPT ![key] = value]
    /\ secretWrites' = [secretWrites EXCEPT ![key] = value]
    /\ secretSaves' = SaveCalled(secretSaves)
    /\ UNCHANGED <<secretItem, secretGot, notSecret>>

\* delete(key)
SecretDelete(key) ==
    /\ Len(secretSaves) < MaxSaves
    /\ secrets' = [secrets EXCEPT ![key] = "undefined"]
    /\ secretWrites' = [secretWrites EXCEPT ![key] = "undefined"]
    /\ secretSaves' = SaveCalled(secretSaves)
    /\ UNCHANGED <<secretItem, secretGot, notSecret>>

\* save(): the awaited record is stringified and handed to crypto.seal.
SaveSeals(i) ==
    /\ secretSaves[i].pc = "await"
    /\ \A j \in 1..(i - 1) : secretSaves[j].pc # "await"
    /\ secretSaves' = [secretSaves EXCEPT ![i] = [pc |-> "sealing", text |-> StringifyRecord(secrets)]]
    /\ UNCHANGED <<secrets, secretItem, secretWrites, secretGot, notSecret>>

\* crypto.seal settles: the sealed text is written, or the error is logged.
SaveSealSettles(i, sealed) ==
    /\ secretSaves[i].pc = "sealing"
    /\ secretSaves' = [secretSaves EXCEPT ![i].pc = IF sealed THEN "stored" ELSE "failed"]
    /\ secretItem' = IF sealed THEN Seal(secretSaves[i].text) ELSE secretItem
    /\ UNCHANGED <<secrets, secretWrites, secretGot, notSecret>>

SecretNext ==
    \/ \E key \in SecretKeys : SecretGet(key)
    \/ \E key \in SecretKeys, value \in SecretValues : SecretSet(key, value)
    \/ \E key \in SecretKeys : SecretDelete(key)
    \/ \E i \in 1..Len(secretSaves) : SaveSeals(i)
    \/ \E i \in 1..Len(secretSaves), sealed \in BOOLEAN : SaveSealSettles(i, sealed)

SpecSecret == SecretInit /\ [][SecretNext]_vars

\* C26: once every started save has completed (each seal having succeeded),
\* the record persisted in localStorage equals the in-memory secrets, whatever
\* the order in which the seal operations complete; get(k) after set(k, v) returns v and get(k)
\* after delete(k) returns undefined.
C26_PersistedEqualsMemory ==
    /\ (secretSaves # <<>> /\ \A i \in 1..Len(secretSaves) : secretSaves[i].pc = "stored")
        => secretItem.sealed /\ Unseal(secretItem) = StringifyRecord(secrets)
    /\ \A key \in SecretKeys : secrets[key] = secretWrites[key]

(***************************************************************************)
(* XtermTerminal: enabling and disposing of the WebGL renderer.  An addon  *)
(* is a number, 0 standing for undefined; the statics are shared by the    *)
(* terminals of the process.                                               *)
(***************************************************************************)

MaxAddons == 3
Terminals == {"t1", "t2"}
GpuSettings == {"auto", "on", "off"}
Renderers == {"SwiftShader", "other", "noDebugInfo"}

\* The process-wide statics with the terminals: what the methods work on.
World(process, terms) == [process |-> process, terms |-> terms]

NoTerminal == [element |-> FALSE, enableGpu |-> FALSE, webglAddon |-> 0, pending |-> 0, loaded |-> {}]

WebglInit ==
    /\ gpuAcceleration \in GpuSettings
    /\ wgRenderer \in Renderers
    /\ wgProcess = [suggested |-> "undefined", checked |-> FALSE, probes |-> 0, created |-> 0]
    /\ wgTerms = [t \in Terminals |-> NoTerminal]
    /\ PathIdle
    /\ StaticIdle
    /\ ExtIdle
    /\ RootIdle
    /\ LoginIdle
    /\ JsonIdle
    /\ UpgradeIdle
    /\ TlsIdle
    /\ CallbackIdle
    /\ KeyIdle
    /\ SecretIdle
    /\ HandleIdle
    /\ IframeIdle

\* _shouldLoadWebgl()
shouldLoadWebgl(w, setting) ==
    (setting = "auto" /\ w.process.suggested = "undefined") \/ setting = "on"

\* _disposeOfWebglRenderer(): this._webglAddon?.dispose(); this._webglAddon = undefined
disposeOfWebglRenderer(w, t) ==
    [w EXCEPT !.terms[t].loaded = @ \ {w.terms[t].webglAddon},
              !.terms[t].webglAddon = 0]

\* _disableWebglForThisSession()
disableWebglForThisSession(w, t) ==
    disposeOfWebglRenderer([w EXCEPT !.process.suggested = "dom"], t)

\* _enableWebglRenderer() up to its await: the guard, the one-time
\* compatibility check, then the wait for the addon constructor.
enableWebglRenderer(w, t, renderer) ==
    IF ~w.terms[t].element \/ w.terms[t].webglAddon # 0 THEN w
    ELSE IF ~w.process.checked
    THEN LET probed == [w EXCEPT !.process.checked = TRUE, !.process.probes = @ + 1] IN
         IF renderer = "SwiftShader" THEN disableWebglForThisSession(probed, t)
         ELSE [probed EXCEPT !.terms[t].pending = @ + 1]
    ELSE [w EXCEPT !.terms[t].pending = @ + 1]

\* attachToElement(container, options)
attachToElement(w, t, enableGpu, setting, renderer) ==
    LET opened == [w EXCEPT !.terms[t].element = TRUE, !.terms[t].enableGpu = enableGpu] IN
    IF enableGpu /\ shouldLoadWebgl(opened, setting)
    THEN enableWebglRenderer(opened, t, renderer) ELSE opened

\* updateConfig()
updateConfig(w, t, setting, renderer) ==
    IF w.terms[t].element /\ w.terms[t].enableGpu
    THEN IF shouldLoadWebgl(w, setting) THEN enableWebglRenderer(w, t, renderer)
         ELSE disposeOfWebglRenderer(w, t)
    ELSE w

\* The onDidChangeConfiguration listener of one terminal, for a change of
\* the GPU acceleration setting.
onDidChangeGpuAcceleration(w, t, setting, renderer) ==
    updateConfig([w EXCEPT !.process.suggested = "undefined"], t, setting, renderer)

ThisWorld == World(wgProcess, wgTerms)

Invocations(w) ==
    w.process.created + w.terms["t1"].pending + w.terms["t2"].pending

SetWorld(w) ==
    /\ Invocations(w) <= MaxAddons
    /\ wgProcess' = w.process
    /\ wgTerms' = w.terms

\* A terminal is attached to a container.
AttachToElement(t, enableGpu) ==
    /\ SetWorld(attachToElement(ThisWorld, t, enableGpu, gpuAcceleration, wgRenderer))
    /\ UNCHANGED <<gpuAcceleration, wgRenderer, notWebgl>>

\* A configuration change other than of the GPU setting reaches a terminal.
UpdateConfig(t) ==
    /\ SetWorld(updateConfig(ThisWorld, t, gpuAcceleration, wgRenderer))
    /\ UNCHANGED <<gpuAcceleration, wgRenderer, notWebgl>>

\* The GPU acceleration setting changes: every terminal's listener runs.
GpuAccelerationChanges(setting) ==
    /\ setting # gpuAcceleration
    /\ gpuAcceleration' = setting
    /\ SetWorld(onDidChangeGpuAcceleration(
                    onDidChangeGpuAcceleration(ThisWorld, "t1", setting, wgRenderer),
                    "t2", setting, wgRenderer))
    /\ UNCHANGED <<wgRenderer, notWebgl>>

\* An awaited addon constructor arrives: the addon is created, assigned and
\* loaded; a load that throws disables WebGL for the session.
AddonConstructorResolves(t, loads) ==
    /\ wgTerms[t].pending > 0
    /\ LET addon == wgProcess.created + 1
           made == [ThisWorld EXCEPT !.process.created = addon,
                                     !.terms[t].pending = @ - 1,
                                     !.terms[t].webglAddon = addon]
       IN SetWorld(IF loads THEN [made EXCEPT !.terms[t].loaded = @ \cup {addon}]
                   ELSE disableWebglForThisSession(made, t))
    /\ UNCHANGED <<gpuAcceleration, wgRenderer, notWebgl>>

\* A loaded addon loses its context: onContextLoss disposes of the renderer.
WebglContextLoss(t, addon) ==
    /\ addon \in wgTerms[t].loaded
    /\ SetWorld(disposeOfWebglRenderer(ThisWorld, t))
    /\ UNCHANGED <<gpuAcceleration, wgRenderer, notWebgl>>

WebglNext ==
    \/ \E t \in Terminals, enableGpu \in BOOLEAN : AttachToElement(t, enableGpu)
    \/ \E t \in Terminals : UpdateConfig(t)
    \/ \E setting \in GpuSettings : GpuAccelerationChanges(setting)
    \/ \E t \in Terminals, loads \in BOOLEAN : AddonConstructorResolves(t, loads)
    \/ \E t \in Terminals, addon \in 1..MaxAddons : WebglContextLoss(t, addon)

SpecWebgl == WebglInit /\ [][WebglNext]_vars

\* C27: a terminal never has more than one WebGL addon created and loaded at
\* a time: a second invocation of _enableWebglRenderer during the wait for
\* the constructor creates no second addon, and every loaded addon is the one
\* _disposeOfWebglRenderer disposes of.
C27_OneWebglAddon ==
    \A t \in Terminals :
        /\ Cardinality(wgTerms[t].loaded) <= 1
        /\ wgTerms[t].loaded \subseteq {wgTerms[t].webglAddon}


\* The compatibility probe ran and found the renderer incompatible.
ProbeFoundIncompatible == wgProcess.checked /\ wgRenderer = "SwiftShader"

\* C29: with gpuAcceleration 'auto', once _suggestedRendererType is 'dom' no
\* terminal starts loading the WebGL renderer until the GPU acceleration
\* setting changes; the compatibility probe runs at most once per process; and
\* WebGL is never loaded on a renderer the probe found incompatible, whatever
\* the gpuAcceleration setting.
C29_NoWebglAfterDom ==
    /\ [][gpuAcceleration = "auto" /\ wgProcess.suggested = "dom" /\ gpuAcceleration' = gpuAcceleration
            => \A t \in Terminals : wgTerms'[t].pending <= wgTerms[t].pending]_vars
    /\ [](wgProcess.probes <= 1)
    /\ [](ProbeFoundIncompatible => \A t \in Terminals : wgTerms[t].loaded = {})


\* The responses of the request and, for each, whether its handler is over.
Responses ==
    {[res |-> [status |-> sRes.status, ended |-> sRes.ended], over |-> sPc \in {"done", "failed", "rejected"}],
     [res |-> [status |-> eRes.status, ended |-> eRes.ended], over |-> ePc \in {"done", "rejected"}],
     [res |-> [status |-> rRes.status, ended |-> rRes.ended], over |-> rPc = "done"],
     [res |-> [status |-> hRes.status, ended |-> hRes.ended], over |-> hPc = "settled"]}

\* C28: for every request the status line is written at most once (once
\* written, the status is not written again), and every response whose
\* status line has been written is ended when its handler is over, also when
\* the file read stream or the upstream body stream fails after the 200 head.
C28_HeadOnceAndEnded ==
    /\ [][/\ sRes.status # 0 => sRes'.status = sRes.status
          /\ eRes.status # 0 => eRes'.status = eRes.status
          /\ rRes.status # 0 => rRes'.status = rRes.status
          /\ hRes.status # 0 => hRes'.status = hRes.status]_vars
    /\ [](\A r \in Responses : r.over /\ r.res.status # 0 => r.res.ended)

(***************************************************************************)
(* webWorkerExtensionHostIframe.html: hostname validation, the bootstrap   *)
(* request to the parent and the message handlers.  A hostname is a        *)
(* sequence of tokens: the marker "v--", a hash, ".", or a label.          *)
(***************************************************************************)

MaxPosted == 3
hostnameValidationMarker == <<"v--">>

\* An origin string: whether new URL() parses it, and its hostname.
Origin(id, valid, hostname) == [id |-> id, valid |-> valid, hostname |-> hostname]

Salts == {"s1", "s2"}
ParentOrigins ==
    {Origin("p1", TRUE, <<"a">>),
     Origin("p2", TRUE, <<"v--", "a">>),
     Origin("null", FALSE, <<>>)}

\* parentOriginHash: sha-256 of JSON.stringify({ parentOrigin, salt }) in base
\* 32, one token per pair of inputs.
parentOriginHash(parentOrigin, salt) ==
    CASE parentOrigin.id = "p1" /\ salt = "s1" -> "h11"
      [] parentOrigin.id = "p1" /\ salt = "s2" -> "h12"
      [] parentOrigin.id = "p2" /\ salt = "s1" -> "h21"
      [] parentOrigin.id = "p2" /\ salt = "s2" -> "h22"
      [] parentOrigin.id = "null" /\ salt = "s1" -> "h01"
      [] parentOrigin.id = "null" /\ salt = "s2" -> "h02"
      [] OTHER -> "hself"

IframeHashes == {"h11", "h12", "h21", "h01"}
IframeHostnames ==
    {<<"a">>, <<"v--", "a">>}
    \cup {<<"v--", h, ".", "a">> : h \in IframeHashes}
    \cup {<<"v--", h, "a">> : h \in IframeHashes}

\* searchParams.get('parentOrigin') || window.origin
ParentOriginOf(param, hostname) ==
    IF param.id = "" THEN Origin("self", TRUE, hostname) ELSE param

IframeInit ==
    /\ iHostname \in IframeHostnames
    /\ \E param \in ParentOrigins \cup {Origin("", FALSE, <<>>)} :
        iParentOrigin = ParentOriginOf(param, iHostname)
    /\ iSalt \in Salts
    /\ iSecure \in BOOLEAN
    /\ iPc = "validating"
    /\ iPosted = <<>>
    /\ iOnmessage = "none"
    /\ iWorkers = {}
    /\ iForwarded = {}
    /\ PathIdle
    /\ StaticIdle
    /\ ExtIdle
    /\ RootIdle
    /\ LoginIdle
    /\ JsonIdle
    /\ UpgradeIdle
    /\ TlsIdle
    /\ CallbackIdle
    /\ KeyIdle
    /\ SecretIdle
    /\ WebglIdle
    /\ HandleIdle

\* `${hostnameValidationMarker}${parentOriginHash}.`
requiredSubdomain(parentOrigin, salt) ==
    hostnameValidationMarker \o <<parentOriginHash(parentOrigin, salt), ".">>

\* start(): the bootstrap handler is installed and the NLS data is asked for.
IframeStarts ==
    /\ iPc' = "started"
    /\ iOnmessage' = "bootstrap"
    /\ iPosted' = Append(iPosted, "vscode.bootstrap.nls")

\* sendError(error)
IframeSendsError ==
    /\ iPc' = "error"
    /\ iPosted' = Append(iPosted, "error")
    /\ UNCHANGED iOnmessage

\* The page script up to the await of crypto.subtle.digest.
IframeValidates ==
    /\ iPc = "validating"
    /\ IF ~StartsWith(iHostname, hostnameValidationMarker) THEN IframeStarts
       ELSE IF ~iParentOrigin.valid
       THEN /\ iPc' = "threw"
            /\ UNCHANGED <<iPosted, iOnmessage>>
       ELSE IF iParentOrigin.hostname = iHostname THEN IframeStarts
       ELSE IF ~iSecure THEN IframeSendsError
       ELSE /\ iPc' = "hashing"
            /\ UNCHANGED <<iPosted, iOnmessage>>
    /\ UNCHANGED <<iHostname, iParentOrigin, iSalt, iSecure, iWorkers, iForwarded, notIframe>>

\* The digest settles: the hostname is compared with the required subdomain.
IframeDigestSettles(digested) ==
    /\ iPc = "hashing"
    /\ IF ~digested THEN IframeSendsError
       ELSE IF StartsWith(iHostname, requiredSubdomain(iParentOrigin, iSalt)) THEN IframeStarts
       ELSE IframeSendsError
    /\ UNCHANGED <<iHostname, iParentOrigin, iSalt, iSecure, iWorkers, iForwarded, notIframe>>

\* A message event reaches self.onmessage.
IframeMessage(origin, type, created) ==
    /\ iOnmessage # "none"
    /\ IF iOnmessage = "bootstrap"
       THEN IF origin # iParentOrigin.id \/ type # "vscode.bootstrap.nls"
            THEN UNCHANGED <<iPosted, iOnmessage, iWorkers, iForwarded>>
            ELSE IF created
            THEN /\ iWorkers' = iWorkers \cup {origin}
                 /\ iOnmessage' = "forward"
                 /\ UNCHANGED <<iPosted, iForwarded>>
            ELSE /\ iPosted' = Append(iPosted, "error")
                 /\ UNCHANGED <<iOnmessage, iWorkers, iForwarded>>
       ELSE IF origin # iParentOrigin.id
            THEN UNCHANGED <<iPosted, iOnmessage, iWorkers, iForwarded>>
            ELSE /\ iForwarded' = iForwarded \cup {origin}
                 /\ UNCHANGED <<iPosted, iOnmessage, iWorkers>>
    /\ Len(iPosted') <= MaxPosted
    /\ UNCHANGED <<iHostname, iParentOrigin, iSalt, iSecure, iPc, notIframe>>

MessageOrigins == {"p1", "p2", "self", "evil"}

IframeNext ==
    \/ IframeValidates
    \/ \E digested \in BOOLEAN : IframeDigestSettles(digested)
    \/ \E origin \in MessageOrigins, type \in {"vscode.bootstrap.nls", "other"}, created \in BOOLEAN :
        IframeMessage(origin, type, created)

SpecIframe == IframeInit /\ [][IframeNext]_vars

\* The three cases in which the bootstrap may start.
MayStart ==
    \/ ~StartsWith(iHostname, hostnameValidationMarker)
    \/ iParentOrigin.valid /\ iParentOrigin.hostname = iHostname
    \/ StartsWith(iHostname, requiredSubdomain(iParentOrigin, iSalt))

Started == \E i \in 1..Len(iPosted) : iPosted[i] = "vscode.bootstrap.nls"

\* C30: the iframe starts the worker bootstrap only if hostname validation is
\* not requested, or the parent origin has the same hostname, or the hostname
\* starts with 'v--' + hash(parentOrigin, salt) + '.'; in every other case it
\* posts an error to the parent and never starts; and a message whose origin
\* differs from parentOrigin never creates the worker and is never forwarded.
C30_ValidatedStart ==
    /\ Started => MayStart
    /\ (iPc \in {"started", "error", "threw"} /\ ~MayStart) =>
        /\ ~Started
        /\ \E i \in 1..Len(iPosted) : iPosted[i] = "error"
    /\ iWorkers \subseteq {iParentOrigin.id}
    /\ iForwarded \subseteq {iParentOrigin.id}

=============================================================================
